---- MODULE Spec2Model ----
(***************************************************************************)
(* A model of the GitLab vulnerability receiver: the vulnerability state   *)
(* store (internal/state/state.go), the per-tick export processing of the  *)
(* two receivers in receiver.go, and the wait-for-export loops of the      *)
(* client (client.go and its later revision).                              *)
(*                                                                         *)
(* The specifications share the variables of the module:                   *)
(*   Spec      the state store driven call by call;                        *)
(*   SpecTick  successive ticks of processExport over the state store;     *)
(*   SpecWait  one run of WaitForExport against a remote that answers      *)
(*             each status call as it likes, with time and cancellation.   *)
(*   SpecConc  goroutines calling the state store concurrently, a step     *)
(*             per lock operation, map access and file write;              *)
(*   SpecLoad  the state store across process restarts, from the file the  *)
(*             last process left;                                          *)
(*   SpecSched Start, the poll loop with its ticker, and Shutdown;         *)
(*   SpecCreate the calls that submit an export job;                       *)
(*   SpecDerive key and hash derivation on pairs of records;               *)
(*   SpecConfig Config.Validate on the configurations a file may give;     *)
(*   SpecLogs  convertToLogs on the rows of a payload;                     *)
(*   SpecPoll  pollExport of receiver.go, with fairness.                   *)
(* A specification holds the variables it does not use at a fixed value.   *)
(***************************************************************************)
EXTENDS Integers, Sequences, FiniteSets, TLC

VARIABLES
    \* ---- state store (state.go: StateManager) ----
    states,      \* sm.states: IdentityKey -> [LastSeenHash, LastSeenAt]
    statePath,   \* sm.statePath: "" means memory-only
    disk,        \* the file at statePath: absent, corrupt or a document
    clock,       \* time.Now() as seen by UpdateState, a logical clock
    last,        \* the last store call and what it returned
    log,         \* the records passed to UpdateState so far, in order
    \* ---- processExport ticks (receiver.go) ----
    tick,        \* what the last tick did
    \* ---- WaitForExport (client.go, and its later revision) ----
    w,           \* the state of one WaitForExport call
    \* ---- goroutines calling the state store (state.go: sm.mu) ----
    conc,        \* the lock and where each goroutine stands
    \* ---- the poll loop and Shutdown (receiver.go) ----
    sched,       \* the polling goroutine, its ticker and a Shutdown call
    \* ---- CreateExport, CreateGroupExport (client.go, later revision) ----
    cr,          \* the state of one creation call
    \* ---- functions applied on their own (state.go, config, receiver.go) ----
    fn           \* the inputs of one application and its results

vars      == <<states, statePath, disk, clock, last, log, tick, w, conc,
              sched, cr, fn>>

(***************************************************************************)
(* Bounds of the model.                                                    *)
(***************************************************************************)
MaxOps == 3          \* UpdateState calls in one run of Spec
MaxTicks == 2        \* ticks in one run of SpecTick
MaxRows == 2         \* data rows of one payload
MaxTimeout == 21     \* the longest timeout handed to WaitForExport
MaxLatency == 1      \* the longest a status request takes
NProcs == 2          \* goroutines calling the store in SpecConc
MaxCalls == 2        \* store calls made in one run of SpecConc

(***************************************************************************)
(* Records.  A record is a Go map[string]string: a function from the field *)
(* names it carries to their values.                                       *)
(***************************************************************************)
RowFields == {"Project Name", "Tool", "Scanner Name", "CVE", "Location",
              "Status", "Severity"}

Row(cve, status) ==
    [f \in RowFields |->
        CASE f = "Project Name" -> "p"
          [] f = "Tool"         -> "sast"
          [] f = "Scanner Name" -> "semgrep"
          [] f = "CVE"          -> cve
          [] f = "Location"     -> "f.go:10"
          [] f = "Status"       -> status
          [] f = "Severity"     -> "high"]

\* A record of a payload whose header has two columns only.
Sparse(project, status) ==
    [f \in {"Project Name", "Status"} |->
        IF f = "Project Name" THEN project ELSE status]

\* export.ProjectID and export.ID of the export the remote hands back.
ExportProjectID == "12345"
ExportID == "1"

FullRecords == {Row(cve, st) : cve \in {"CVE-1", "CVE-2"},
                               st \in {"detected", "resolved"}}

SparseRecords == {Sparse(ExportProjectID, st) : st \in {"detected", ""}}

Records == FullRecords \cup SparseRecords

\* The record of the UpdateState call that ends processExport.
ExportMarker ==
    [f \in {"Project Name", "Export ID"} |->
        IF f = "Project Name" THEN ExportProjectID ELSE ExportID]

\* A record with a field value that is no valid UTF-8: <0xFF> stands for
\* the single byte 0xFF.  encoding/csv hands such bytes through unchanged.
RawRecords == {Row("CVE-<0xFF>", "detected")}

\* Every record the store is called with.
AllRecords == Records \cup {ExportMarker} \cup RawRecords

(***************************************************************************)
(* state.go                                                                *)
(***************************************************************************)
\* record["F"] of a Go map: the zero value "" when the key is missing.
Field(record, f) == IF f \in DOMAIN record THEN record[f] ELSE ""

RECURSIVE JoinFrom(_, _, _)
JoinFrom(elems, sep, i) ==
    IF i > Len(elems) THEN ""
    ELSE IF i = Len(elems) THEN elems[i]
    ELSE elems[i] \o sep \o JoinFrom(elems, sep, i + 1)

\* strings.Join
Join(elems, sep) == JoinFrom(elems, sep, 1)

\* ComputeKey as the code computes it.
JoinedKey(record) ==
    LET keyFields == << Field(record, "Project Name"),
                        Field(record, "Tool"),
                        Field(record, "Scanner Name"),
                        Field(record, "CVE"),
                        Field(record, "Location") >>
    IN  Join(keyFields, "|")

\* The keys of the records of the model, computed once.
KeyTable == [r \in AllRecords |-> JoinedKey(r)]

ComputeKey(record) == KeyTable[record]

\* hex(sha256(s)): SHA-256 is taken to be collision free, so the digest is
\* modelled as an injective tagging of its input.
Sha256Hex(s) == "sha256:" \o s

\* ComputeVersionHash as the code computes it.
HashedVersion(record) ==
    LET versionFields == << Field(record, "Status"),
                            Field(record, "Severity"),
                            Field(record, "Details"),
                            Field(record, "Additional Info"),
                            Field(record, "Dismissal Reason") >>
    IN  Sha256Hex(Join(versionFields, "|"))

\* The hashes of the records of the model, computed once.
HashTable == [r \in AllRecords |-> HashedVersion(r)]

\* The plausible slip of leaving Status out of the hashed fields.
ComputeVersionHash_NoStatus(record) ==
    LET versionFields == << Field(record, "Severity"),
                            Field(record, "Details"),
                            Field(record, "Additional Info"),
                            Field(record, "Dismissal Reason") >>
    IN  Sha256Hex(Join(versionFields, "|"))

ComputeVersionHash(record) == HashTable[record]

\* The plausible slip of returning "new" only, never "changed".
ShouldProcess_NewOnly(m, record) == ComputeKey(record) \notin DOMAIN m

\* ShouldProcess on the map m (the read is a single locked map lookup).
ShouldProcess(m, record) ==
    LET key  == ComputeKey(record)
        hash == ComputeVersionHash(record)
    IN  IF key \notin DOMAIN m
        THEN TRUE
        ELSE m[key].LastSeenHash # hash

\* The plausible slip of folding the stored hash into the new one.
Upsert_ChainedHash(m, record, now) ==
    LET key == ComputeKey(record)
    IN  [k \in DOMAIN m \cup {key} |->
            IF k = key
            THEN [LastSeenHash |->
                      IF key \in DOMAIN m
                      THEN Sha256Hex(m[key].LastSeenHash
                                        \o ComputeVersionHash(record))
                      ELSE ComputeVersionHash(record),
                  LastSeenAt |-> now]
            ELSE m[k]]

\* The plausible slip of storing the entry in a fresh map.
Upsert_FreshMap(m, record, now) ==
    [k \in {ComputeKey(record)} |->
        [LastSeenHash |-> ComputeVersionHash(record), LastSeenAt |-> now]]

\* The plausible slip of inserting a key once and never overwriting it.
Upsert_InsertOnly(m, record, now) ==
    LET key == ComputeKey(record)
    IN  IF key \in DOMAIN m THEN m
        ELSE [k \in DOMAIN m \cup {key} |->
                IF k = key
                THEN [LastSeenHash |-> ComputeVersionHash(record),
                      LastSeenAt |-> now]
                ELSE m[k]]

\* sm.states[key] = VulnerabilityState{hash, time.Now()}
Upsert(m, record, now) ==
    LET key == ComputeKey(record)
    IN  [k \in DOMAIN m \cup {key} |->
            IF k = key
            THEN [LastSeenHash |-> ComputeVersionHash(record),
                  LastSeenAt |-> now]
            ELSE m[k]]

\* The file at statePath when it does not exist, and when it holds no
\* JSON document.
AbsentFile  == [kind |-> "absent", doc |-> {}]
CorruptFile == [kind |-> "corrupt", doc |-> {}]

\* A file that holds the JSON document null.
NullFile == [kind |-> "null", doc |-> {}]

\* encoding/json writes a string coerced to valid UTF-8: every invalid byte
\* becomes U+FFFD.
ToValidUTF8(v) == IF v = "CVE-<0xFF>" THEN "CVE-<U+FFFD>" ELSE v

\* The member name json.Marshal writes for a key of the map.  The key fields
\* are joined with "|", so coercing the key is coercing its fields.
EncodedKey ==
    [k \in {KeyTable[r] : r \in AllRecords} |->
        LET r == CHOOSE x \in AllRecords : KeyTable[x] = k
        IN  JoinedKey([f \in DOMAIN r |-> ToValidUTF8(r[f])])]

\* The member name of a key; a key that Unmarshal produced is valid UTF-8.
MemberName(k) == IF k \in DOMAIN EncodedKey THEN EncodedKey[k] ELSE k

\* json.Marshal(sm.states): one member per key, in the order of the keys.
\* A member is its name, the hash, the time, and the key it was written
\* for, which stands for its place in the document.
Marshal(m) ==
    [kind |-> "doc",
     doc  |-> {<<MemberName(k), m[k].LastSeenHash, m[k].LastSeenAt, k>> :
                    k \in DOMAIN m}]

\* json.Unmarshal(data, &sm.states) of a document Marshal wrote.  Of two
\* members with one name the later wins: the one written for the key with
\* the byte 0xFF, which sorts after the bytes of U+FFFD.
Unmarshal(doc) ==
    [k \in {t[1] : t \in doc} |->
        LET named == {x \in doc : x[1] = k}
            t == IF \E x \in named : x[4] # k
                 THEN CHOOSE x \in named : x[4] # k
                 ELSE CHOOSE x \in named : TRUE
        IN  [LastSeenHash |-> t[2], LastSeenAt |-> t[3]]]

\* NewStateManager(path) over the file at path: whether it returns an
\* error, the map of the store it returns, whether that map is nil, and
\* whether the file system was touched.  json.Unmarshal of null sets the
\* map to nil and returns no error.
NewStateManager(path, file) ==
    IF path = ""
    THEN [err |-> FALSE, states |-> [k \in {} |-> "none"], nilMap |-> FALSE,
          io |-> FALSE]
    ELSE CASE file.kind = "absent" ->
                [err |-> FALSE, states |-> [k \in {} |-> "none"],
                 nilMap |-> FALSE, io |-> TRUE]
           [] file.kind = "corrupt" ->
                [err |-> TRUE, states |-> [k \in {} |-> "none"],
                 nilMap |-> FALSE, io |-> TRUE]
           [] file.kind = "null" ->
                [err |-> FALSE, states |-> [k \in {} |-> "none"],
                 nilMap |-> TRUE, io |-> TRUE]
           [] OTHER ->
                [err |-> FALSE, states |-> Unmarshal(file.doc),
                 nilMap |-> FALSE, io |-> TRUE]

\* save(): the file after the call, and whether the call returned nil.
\* A failed os.WriteFile leaves the old file or a truncated one.
SaveOutcomes(m, path, file) ==
    IF path = ""
    THEN {[disk |-> file, ok |-> TRUE]}
    ELSE {[disk |-> Marshal(m), ok |-> TRUE],
          [disk |-> file, ok |-> FALSE],
          [disk |-> CorruptFile, ok |-> FALSE]}

\* GetState: the map it returns, or "nil".
GetState(m, record) ==
    LET stateKey == ComputeKey(record)
    IN  IF stateKey \in DOMAIN m
        THEN [isNil |-> FALSE, ExportID |-> m[stateKey].LastSeenHash]
        ELSE [isNil |-> TRUE, ExportID |-> ""]

EmptyStates == [k \in {} |-> "none"]

NoCall == [op |-> "none"]

\* The variables the store specification does not use.
NoPayload == [rows |-> << >>, bad |-> FALSE]
IdleTick == [impl |-> "none", kind |-> "none", n |-> 0, received |-> FALSE,
             payload |-> NoPayload, result |-> "none", calls |-> << >>,
             failed |-> "none",
             handed |-> << >>, updated |-> << >>, trace |-> << >>,
             setState |-> FALSE]
IdleWait == [pc |-> "idle"]
IdleConc == [g |-> << >>]
IdleSched == [pc |-> "none"]
IdleCreate == [pc |-> "none"]
IdleFn == [pc |-> "none"]

\* NewStateManager(path) where no file exists yet.
StoreInit ==
    /\ states = EmptyStates
    /\ statePath \in {"", "state.json"}
    /\ disk = AbsentFile
    /\ clock = 0
    /\ last = NoCall
    /\ log = << >>

Init ==
    /\ StoreInit
    /\ tick = IdleTick
    /\ w = IdleWait
    /\ conc = IdleConc
    /\ sched = IdleSched
    /\ cr = IdleCreate
    /\ fn = IdleFn

\* The plausible slip of a check that marks the record as seen.
AfterShouldProcess_MarkSeen(m, record, now) == Upsert(m, record, now)

\* sm.states once ShouldProcess has returned: the map is looked up under
\* the read lock and nothing is stored.
AfterShouldProcess(m, record, now) == m

\* sm.states once GetState has returned: a Go map lookup adds no entry.
AfterGetState(m, record) == m

ShouldProcessCall ==
    \E r \in Records :
        /\ last' = [op |-> "ShouldProcess", rec |-> r,
                    ret |-> ShouldProcess(states, r)]
        /\ states' = AfterShouldProcess(states, r, clock)
        /\ UNCHANGED <<statePath, disk, clock, log, tick, w, conc, sched, cr, fn>>

UpdateStateCall ==
    \E r \in Records :
        /\ Len(log) < MaxOps
        /\ \E m \in {Upsert(states, r, clock + 1)} :
           \E out \in SaveOutcomes(m, statePath, disk) :
            /\ states' = m
            /\ clock' = clock + 1
            /\ disk' = out.disk
            /\ last' = [op |-> "UpdateState", rec |-> r, ret |-> out.ok,
                        before |-> ShouldProcess(states, r),
                        known |-> ComputeKey(r) \in DOMAIN states]
            /\ log' = Append(log, r)
        /\ UNCHANGED <<statePath, tick, w, conc, sched, cr, fn>>

GetStateCall ==
    \E r \in Records :
        /\ last' = [op |-> "GetState", rec |-> r, ret |-> GetState(states, r)]
        /\ states' = AfterGetState(states, r)
        /\ UNCHANGED <<statePath, disk, clock, log, tick, w, conc, sched, cr, fn>>

Next ==
    \/ ShouldProcessCall
    \/ UpdateStateCall
    \/ GetStateCall

Spec == Init /\ [][Next]_vars

(***************************************************************************)
(* state.go across process restarts (SpecLoad): NewStateManager over the   *)
(* file the last process left, then calls of the store it returned.  In    *)
(* this specification last also carries whether the process has a store    *)
(* (up), whether the map of the store is nil, the UpdateState calls of the *)
(* process whose file write failed (by their place in log), and the length *)
(* of log when the process was started (born).                             *)
(***************************************************************************)
LoadRecords == {Row("CVE-1", "detected"), Row("CVE-1", "resolved")}
               \cup RawRecords

NoProcess == [op |-> "none", rec |-> Row("CVE-1", "detected"), ret |-> "none",
              up |-> FALSE, nilMap |-> FALSE, io |-> FALSE,
              failed |-> {}, born |-> 0]

\* The file a deployment starts with: none, or one some other program
\* wrote that holds no state document.
LoadInit ==
    /\ states = EmptyStates
    /\ statePath \in {"", "state.json"}
    /\ disk \in {AbsentFile, CorruptFile, NullFile}
    /\ clock = 0
    /\ last = NoProcess
    /\ log = << >>
    /\ tick = IdleTick
    /\ w = IdleWait
    /\ conc = IdleConc
    /\ sched = IdleSched
    /\ cr = IdleCreate
    /\ fn = IdleFn

\* A process starts: state.NewStateManager(r.cfg.StateFile).
LoadNew ==
    \E out \in {NewStateManager(statePath, disk)} :
        /\ states' = out.states
        /\ last' = [op |-> "NewStateManager", rec |-> last.rec,
                    ret |-> IF out.err THEN "error" ELSE "ok",
                    up |-> ~out.err, nilMap |-> out.nilMap, io |-> out.io,
                    failed |-> {}, born |-> Len(log)]
        /\ UNCHANGED <<statePath, disk, clock, log, tick, w, conc, sched, cr, fn>>

LoadShouldProcess ==
    \E r \in LoadRecords :
        /\ last.up
        /\ last' = [last EXCEPT !.op = "ShouldProcess", !.rec = r,
                                !.ret = IF ShouldProcess(states, r)
                                        THEN "true" ELSE "false"]
        /\ UNCHANGED <<states, statePath, disk, clock, log, tick, w, conc, sched, cr, fn>>

\* The plausible slip of undoing the map write when the file write fails.
AfterSave_RollBack(old, m, ok) == IF ok THEN m ELSE old

\* sm.states once UpdateState has returned: the map write of lines 92-95
\* stands whatever save() returns.
AfterSave(old, m, ok) == m

\* UpdateState; the write to a nil map panics and ends the process.
LoadUpdate ==
    \E r \in LoadRecords :
        /\ last.up
        /\ Len(log) < MaxOps
        /\ log' = Append(log, r)
        /\ clock' = clock + 1
        /\ IF last.nilMap
           THEN /\ last' = [last EXCEPT !.op = "UpdateState", !.rec = r,
                                        !.ret = "panic", !.up = FALSE]
                /\ UNCHANGED <<states, disk>>
           ELSE \E m \in {Upsert(states, r, clock + 1)} :
                \E out \in SaveOutcomes(m, statePath, disk) :
                    /\ states' = AfterSave(states, m, out.ok)
                    /\ disk' = out.disk
                    /\ last' = [last EXCEPT
                                  !.op = "UpdateState", !.rec = r,
                                  !.ret = IF out.ok THEN "ok" ELSE "error",
                                  !.failed = IF out.ok THEN @
                                             ELSE @ \cup {Len(log) + 1}]
        /\ UNCHANGED <<statePath, tick, w, conc, sched, cr, fn>>

LoadNext ==
    \/ LoadNew
    \/ LoadShouldProcess
    \/ LoadUpdate

SpecLoad == LoadInit /\ [][LoadNext]_vars

(***************************************************************************)
(* receiver.go, exports.go: one tick of the poll loop.                      *)
(***************************************************************************)
\* The records the payloads of SpecTick are made of.
TickRecords == {Row("CVE-1", "detected"), Row("CVE-1", "resolved"),
                Sparse(ExportProjectID, "detected")}

\* The data rows of a CSV payload: every row has the header's columns.
RowSeqs ==
    UNION {{rs \in [1..n -> TickRecords] :
                \A i, j \in 1..n : DOMAIN rs[i] = DOMAIN rs[j]} : n \in 0..MaxRows}

\* A payload: its well-formed data rows, and whether a malformed row
\* follows them.
Payloads == {[rows |-> rs, bad |-> b] : rs \in RowSeqs, b \in BOOLEAN}

\* UpdateState(record) inside a tick: st carries the map, the files the
\* writes so far may have left, and the calls made.
TickUpdate(st, record, now) ==
    LET m == Upsert(st.states, record, now)
    IN  [st EXCEPT
            !.states  = m,
            !.disks   = UNION {{o.disk : o \in SaveOutcomes(m, statePath, d)} :
                                    d \in st.disks},
            !.updated = Append(@, record)]

\* The plausible slip of recording a row as processed before the result of
\* the hand-off is looked at.
RECURSIVE ProcessRows_UpdateBeforeCheck(_, _, _, _, _)
ProcessRows_UpdateBeforeCheck(st, rows, i, cfail, now) ==
    IF i > Len(rows) THEN st
    ELSE IF ~ShouldProcess(st.states, rows[i])
         THEN ProcessRows_UpdateBeforeCheck(
                [st EXCEPT !.trace = Append(@, [should |-> FALSE,
                        handed |-> "none", updated |-> FALSE, same |-> TRUE])],
                rows, i + 1, cfail, now)
    ELSE LET ok  == (Len(st.handed) + 1) \notin cfail
             new == TickUpdate(
                      [st EXCEPT !.handed = Append(@, [rec |-> rows[i],
                                                       ok |-> ok])],
                      rows[i], now)
         IN  ProcessRows_UpdateBeforeCheck(
                [new EXCEPT !.trace = Append(@, [should |-> TRUE,
                        handed |-> IF ok THEN "ok" ELSE "fail",
                        updated |-> TRUE, same |-> new.states = st.states])],
                rows, i + 1, cfail, now)

\* The row loop of processExport from row i on; cfail holds the
\* ConsumeLogs calls of the tick that fail (the first, the second, ...).
\* st.trace gets one entry per row: what ShouldProcess answered, whether the
\* row was handed to the consumer and with what result, whether UpdateState
\* was called for it, and whether the map is the same after the row.
RECURSIVE ProcessRows(_, _, _, _, _)
ProcessRows(st, rows, i, cfail, now) ==
    IF i > Len(rows) THEN st
    ELSE IF ~ShouldProcess(st.states, rows[i])
         THEN ProcessRows(
                [st EXCEPT !.trace = Append(@, [should |-> FALSE,
                        handed |-> "none", updated |-> FALSE, same |-> TRUE])],
                rows, i + 1, cfail, now)
    ELSE IF (Len(st.handed) + 1) \in cfail
         THEN ProcessRows(
                [st EXCEPT !.handed = Append(@, [rec |-> rows[i], ok |-> FALSE]),
                           !.trace = Append(@, [should |-> TRUE,
                        handed |-> "fail", updated |-> FALSE, same |-> TRUE])],
                rows, i + 1, cfail, now)
    ELSE LET new == TickUpdate(
                      [st EXCEPT !.handed = Append(@, [rec |-> rows[i],
                                                       ok |-> TRUE])],
                      rows[i], now)
         IN  ProcessRows(
                [new EXCEPT !.trace = Append(@, [should |-> TRUE,
                        handed |-> "ok", updated |-> TRUE,
                        same |-> new.states = st.states])],
                rows, i + 1, cfail, now)

\* What a tick starts from.
TickStart ==
    [states |-> states, disks |-> {disk}, handed |-> << >>,
     updated |-> << >>, trace |-> << >>, setState |-> FALSE]

\* processExport (receiver.go:100-168) once the payload has been opened and
\* its header read.
ProcessPayload(p, cfail, now) ==
    LET rows == ProcessRows(TickStart, p.rows, 1, cfail, now)
    IN  IF p.bad
        THEN rows @@ [result |-> "failed to read CSV record"]
        ELSE TickUpdate(rows, ExportMarker, now) @@ [result |-> "ok"]

\* The row loop of processCSVData from row i on.  The state GetState hands
\* back never has a "ProcessedIDs" member, so processedIDs is empty and no
\* row is skipped.  The loop ends at the first ConsumeLogs that fails.
RECURSIVE CSVRows(_, _, _, _)
CSVRows(st, rows, i, cfail) ==
    IF i > Len(rows) THEN st @@ [result |-> "read"]
    ELSE IF (Len(st.handed) + 1) \in cfail
         THEN [st EXCEPT !.handed = Append(@, [rec |-> rows[i], ok |-> FALSE]),
                         !.trace = Append(@, [should |-> TRUE,
                        handed |-> "fail", updated |-> FALSE, same |-> TRUE])]
              @@ [result |-> "failed to consume logs"]
    ELSE CSVRows(
            [st EXCEPT !.handed = Append(@, [rec |-> rows[i], ok |-> TRUE]),
                       !.trace = Append(@, [should |-> TRUE,
                        handed |-> "ok", updated |-> FALSE, same |-> TRUE])],
            rows, i + 1, cfail)

\* processCSVData (receiver.go:437-496) once the header has been read.  It
\* ends with a call of stateManager.SetState, a method the sources do not
\* hold: the call is recorded, the map is left as it is.
ProcessCSVData(p, cfail) ==
    LET rows == CSVRows(TickStart, p.rows, 1, cfail)
    IN  IF rows.result # "read" THEN rows
        ELSE IF p.bad
        THEN [rows EXCEPT !.result = "failed to read CSV record"]
        ELSE [rows EXCEPT !.result = "ok",
                          !.setState = Len(rows.handed) > 0]

\* The two receivers of the sources: "rows" is lines 1-313 of receiver.go
\* with exports.go, "csv" lines 315-656.
Receivers == {"rows", "csv"}

\* The kinds of target a tick exports for.
Kinds == {"project", "group"}

\* The first client call of a tick: exports.go resolves the path to an id,
\* receiver.go:605-641 validates the id.
FirstCall(impl, kind) ==
    IF impl = "rows"
    THEN (IF kind = "project" THEN "resolveProjectID" ELSE "resolveGroupID")
    ELSE (IF kind = "project" THEN "validateProjectID" ELSE "validateGroupID")

\* The error a tick returns when its first call fails.
FirstCallError(impl, kind) ==
    IF impl = "rows"
    THEN (IF kind = "project" THEN "failed to resolve project ID"
                              ELSE "failed to resolve group ID")
    ELSE (IF kind = "project" THEN "invalid project ID"
                              ELSE "invalid group ID")

\* The call that submits the export job, and the error a tick returns when
\* it fails.
CreateCall(kind) ==
    IF kind = "project" THEN "CreateExport" ELSE "CreateGroupExport"

CreateCallError(kind) ==
    IF kind = "project" THEN "failed to create export"
                        ELSE "failed to create group export"

\* The plausible slip of going on to the download when the wait failed.
AbortPoints_WaitThenFetch(impl, kind) ==
    [wait |-> [calls  |-> <<FirstCall(impl, kind), CreateCall(kind),
                            "WaitForExport", "GetExportData">>,
               failed |-> "WaitForExport",
               result |-> "failed to wait for export"]]

\* The plausible slip of submitting the export job before the target has
\* been looked at, and of waiting for a job that was never created.
AbortPoints_CreateFirst(impl, kind) ==
    [resolve  |-> [calls  |-> <<CreateCall(kind), FirstCall(impl, kind)>>,
                   failed |-> FirstCall(impl, kind),
                   result |-> FirstCallError(impl, kind)],
     create   |-> [calls  |-> <<FirstCall(impl, kind), CreateCall(kind),
                                "WaitForExport">>,
                   failed |-> CreateCall(kind),
                   result |-> CreateCallError(kind)]]

\* The client calls a tick makes up to the step that fails, the call that
\* returned the error, and the error the tick returns.
AbortPoints(impl, kind) ==
    [resolve  |-> [calls  |-> <<FirstCall(impl, kind)>>,
                   failed |-> FirstCall(impl, kind),
                   result |-> FirstCallError(impl, kind)],
     create   |-> [calls  |-> <<FirstCall(impl, kind), CreateCall(kind)>>,
                   failed |-> CreateCall(kind),
                   result |-> CreateCallError(kind)],
     wait     |-> [calls  |-> <<FirstCall(impl, kind), CreateCall(kind),
                                "WaitForExport">>,
                   failed |-> "WaitForExport",
                   result |-> "failed to wait for export"],
     download |-> [calls  |-> <<FirstCall(impl, kind), CreateCall(kind),
                                "WaitForExport", "GetExportData">>,
                   failed |-> "GetExportData",
                   result |-> "failed to download export"],
     header   |-> [calls  |-> <<FirstCall(impl, kind), CreateCall(kind),
                                "WaitForExport", "GetExportData">>,
                   failed |-> "csvReader.Read",
                   result |-> "failed to read CSV header"]]

\* The client calls of a tick that reaches the payload.
AllCalls(impl, kind) ==
    <<FirstCall(impl, kind), CreateCall(kind), "WaitForExport",
      "GetExportData">>

\* The last tick read its payload to the end and no ConsumeLogs failed.
TickClean(t) ==
    /\ t.received
    /\ t.result = "ok"
    /\ \A i \in 1..Len(t.handed) : t.handed[i].ok

TickInit ==
    /\ StoreInit
    /\ \E impl \in Receivers, kind \in Kinds :
            tick = [IdleTick EXCEPT !.impl = impl, !.kind = kind]
    /\ w = IdleWait
    /\ conc = IdleConc
    /\ sched = IdleSched
    /\ cr = IdleCreate
    /\ fn = IdleFn

\* A tick that fails before the first data row is read.
TickAborted ==
    \E a \in DOMAIN AbortPoints(tick.impl, tick.kind) :
        /\ tick.n < MaxTicks
        /\ tick' = [tick EXCEPT
                      !.n = @ + 1, !.received = FALSE, !.payload = NoPayload,
                      !.result = AbortPoints(tick.impl, tick.kind)[a].result,
                      !.calls = AbortPoints(tick.impl, tick.kind)[a].calls,
                      !.failed = AbortPoints(tick.impl, tick.kind)[a].failed,
                      !.handed = << >>, !.updated = << >>, !.trace = << >>,
                      !.setState = FALSE]
        /\ clock' = clock + 1
        /\ UNCHANGED <<states, statePath, disk, last, log, w, conc, sched, cr, fn>>

\* A tick that reaches the data rows of the payload.
TickProcessed ==
    \E p \in Payloads, cfail \in SUBSET (1..MaxRows) :
        /\ tick.n < MaxTicks
        /\ cfail \subseteq 1..Len(p.rows)
        /\ \E out \in {IF tick.impl = "rows"
                       THEN ProcessPayload(p, cfail, clock + 1)
                       ELSE ProcessCSVData(p, cfail)} :
               /\ cfail \subseteq 1..Len(out.handed)
               /\ states' = out.states
               /\ disk' \in out.disks
               /\ tick' = [tick EXCEPT
                             !.n = @ + 1, !.received = TRUE, !.payload = p,
                             !.result = out.result,
                             !.calls = AllCalls(tick.impl, tick.kind),
                             !.failed = "none",
                             !.handed = out.handed, !.updated = out.updated,
                             !.trace = out.trace, !.setState = out.setState]
        /\ clock' = clock + 1
        /\ UNCHANGED <<statePath, last, log, w, conc, sched, cr, fn>>

TickNext ==
    \/ TickAborted
    \/ TickProcessed

SpecTick == TickInit /\ [][TickNext]_vars

(***************************************************************************)
(* receiver.go: Start, the poll loop and Shutdown.  The loop is one         *)
(* goroutine; its select takes any case that is ready, so with the context  *)
(* cancelled and a tick waiting in ticker.C either case may be taken.  A    *)
(* ticker holds at most one tick and drops the ticks that find it full.     *)
(***************************************************************************)
MaxFires == 3        \* times the ticker fires in one run of SpecSched

\* What a tick can come to: nil, or the error of the step that failed.  With
\* the context cancelled when the tick starts, its first request fails.
TickOutcomes(impl, kind, cancelledAtStart) ==
    IF cancelledAtStart
    THEN {AbortPoints(impl, kind).resolve.result}
    ELSE {"nil", "failed to read CSV record"}
            \cup {AbortPoints(impl, kind)[a].result :
                        a \in DOMAIN AbortPoints(impl, kind)}

\* What checkExports hands back to the loop: lines 79-97 log the error and
\* return nil, lines 395-415 log it and return it.
checkExports(impl, err) == IF impl = "rows" THEN "nil" ELSE err

\* The error entries one tick writes to the log.
TickLog(impl, kind, err) ==
    IF err = "nil" THEN << >>
    ELSE IF impl = "rows"
    THEN <<IF kind = "project" THEN "Failed to process project exports"
                               ELSE "Failed to process group exports">>
    ELSE (IF err \in {"invalid project ID", "invalid group ID"}
            THEN <<IF kind = "project" THEN "Invalid project ID"
                                       ELSE "Invalid group ID">>
            ELSE << >>)
         \o <<"Failed to process exports", "Failed to check exports">>

\* The plausible slip of leaving the loop when a tick has failed.
AfterCheck_StopOnError(returned) ==
    IF returned = "nil" THEN "select" ELSE "exited"

\* Where the loop goes when checkExports has returned: the error is logged
\* and the for loop goes round.
AfterCheck(returned) == "select"

\* The plausible slip of running checkExports from the timer (a goroutine
\* per tick) and not from the loop.
CanReceive_Always(pc) == pc \in {"select", "check"}

\* Where the goroutine can take a tick from ticker.C: at its select only.
CanReceive(pc) == pc = "select"

\* The plausible slip of waiting for the goroutine without watching the
\* context of the Shutdown call.
ShutdownResult_WaitOnly(done, expired) ==
    IF done THEN {"nil"} ELSE {}

\* The select of Shutdown: the values it can return.
ShutdownResult(done, expired) ==
    (IF done THEN {"nil"} ELSE {}) \cup (IF expired THEN {"ctxErr"} ELSE {})

\* The state file a deployment starts with: none, or one that holds no JSON
\* document.
SchedInit ==
    /\ states = EmptyStates
    /\ statePath \in {"", "state.json"}
    /\ disk \in {AbsentFile, CorruptFile}
    /\ clock = 0
    /\ last = NoCall
    /\ log = << >>
    /\ tick = IdleTick
    /\ w = IdleWait
    /\ conc = IdleConc
    /\ cr = IdleCreate
    /\ fn = IdleFn
    /\ \E impl \in Receivers, kind \in Kinds :
          sched = [impl |-> impl, kind |-> kind,
                   started |-> FALSE,     \* r.cancel is set
                   startErr |-> "none",   \* what Start returned
                   pc |-> "none",         \* the polling goroutine
                   cancelled |-> FALSE,   \* the context of Start
                   tickerC |-> 0,         \* ticks waiting in ticker.C
                   fires |-> 0,           \* times the ticker has fired
                   n |-> 0,               \* ticks started
                   running |-> 0,         \* checkExports calls in progress
                   atStart |-> FALSE,     \* ctx cancelled when the tick began
                   err |-> "none",        \* what the last tick came to
                   bad |-> 0,             \* ticks that failed so far
                   returned |-> "none",   \* what checkExports returned
                   logs |-> << >>,        \* the log entries of the last tick
                   sd |-> "idle",         \* the Shutdown call
                   expired |-> FALSE,     \* the context of Shutdown
                   done |-> FALSE,        \* close(done)
                   result |-> "none"]     \* what Shutdown returned

\* The plausible slip of starting the goroutine before the state manager
\* is made.
StartGoroutine_BeforeStore(err) == "select"

\* Where Start leaves the polling goroutine: it returns the error of
\* NewStateManager before wg.Add and the go statement.
StartGoroutine(err) == IF err THEN "none" ELSE "select"

\* Start: the context is derived, the state manager made, the goroutine
\* started with its ticker.
SchedStart ==
    /\ ~sched.started
    /\ sched.sd = "idle"
    /\ \E out \in {NewStateManager(statePath, disk)} :
          /\ sched' = [sched EXCEPT
                         !.started = TRUE,
                         !.startErr = IF out.err
                            THEN "failed to initialize state manager"
                            ELSE "nil",
                         !.pc = StartGoroutine(out.err)]
          /\ states' = out.states
    /\ UNCHANGED <<statePath, disk, clock, last, log, tick, w, conc, cr, fn>>

\* The ticker fires: the tick waits in ticker.C, or is dropped when one
\* waits there already.
SchedFire ==
    /\ sched.pc \in {"select", "check"}
    /\ sched.fires < MaxFires
    /\ sched' = [sched EXCEPT !.fires = @ + 1, !.tickerC = 1]
    /\ UNCHANGED <<states, statePath, disk, clock, last, log, tick, w, conc, cr, fn>>

\* case <-ctx.Done(): return (and the deferred ticker.Stop, wg.Done).
SchedSelectDone ==
    /\ sched.pc = "select"
    /\ sched.cancelled
    /\ sched' = [sched EXCEPT !.pc = "exited"]
    /\ UNCHANGED <<states, statePath, disk, clock, last, log, tick, w, conc, cr, fn>>

\* case <-ticker.C: checkExports is called.
SchedSelectTick ==
    /\ CanReceive(sched.pc)
    /\ sched.tickerC = 1
    /\ sched' = [sched EXCEPT !.tickerC = 0, !.pc = "check",
                              !.n = @ + 1, !.running = @ + 1,
                              !.atStart = sched.cancelled,
                              !.err = "none", !.returned = "none",
                              !.logs = << >>]
    /\ UNCHANGED <<states, statePath, disk, clock, last, log, tick, w, conc, cr, fn>>

\* checkExports returns and the loop logs what it returned.
SchedCheckReturns ==
    /\ sched.pc = "check"
    /\ \E err \in TickOutcomes(sched.impl, sched.kind, sched.atStart) :
          sched' = [sched EXCEPT
                      !.err = err,
                      !.bad = IF err = "nil" THEN @ ELSE @ + 1,
                      !.returned = checkExports(sched.impl, err),
                      !.logs = TickLog(sched.impl, sched.kind, err),
                      !.running = @ - 1,
                      !.pc = IF sched.running > 1 THEN "check"
                             ELSE AfterCheck(checkExports(sched.impl, err))]
    /\ UNCHANGED <<states, statePath, disk, clock, last, log, tick, w, conc, cr, fn>>

\* The context handed to Start is cancelled by its owner.
SchedCancel ==
    /\ sched.started
    /\ ~sched.cancelled
    /\ sched' = [sched EXCEPT !.cancelled = TRUE]
    /\ UNCHANGED <<states, statePath, disk, clock, last, log, tick, w, conc, cr, fn>>

\* Shutdown up to its select: r.cancel() if Start has set it, and the
\* goroutine that waits for the wait group.
SchedShutdown ==
    /\ sched.sd = "idle"
    /\ sched' = [sched EXCEPT !.sd = "select",
                              !.cancelled = @ \/ sched.started]
    /\ UNCHANGED <<states, statePath, disk, clock, last, log, tick, w, conc, cr, fn>>

\* r.wg.Wait() returns, close(done).
SchedWaiter ==
    /\ sched.sd # "idle"
    /\ ~sched.done
    /\ sched.pc \in {"none", "exited"}
    /\ sched' = [sched EXCEPT !.done = TRUE]
    /\ UNCHANGED <<states, statePath, disk, clock, last, log, tick, w, conc, cr, fn>>

\* The context handed to Shutdown expires.
SchedExpire ==
    /\ ~sched.expired
    /\ sched.sd # "returned"
    /\ sched' = [sched EXCEPT !.expired = TRUE]
    /\ UNCHANGED <<states, statePath, disk, clock, last, log, tick, w, conc, cr, fn>>

\* The select of Shutdown takes a case.
SchedShutdownReturn ==
    /\ sched.sd = "select"
    /\ \E r \in ShutdownResult(sched.done, sched.expired) :
          sched' = [sched EXCEPT !.sd = "returned", !.result = r]
    /\ UNCHANGED <<states, statePath, disk, clock, last, log, tick, w, conc, cr, fn>>

SchedNext ==
    \/ SchedStart
    \/ SchedFire
    \/ SchedSelectDone
    \/ SchedSelectTick
    \/ SchedCheckReturns
    \/ SchedCancel
    \/ SchedShutdown
    \/ SchedWaiter
    \/ SchedExpire
    \/ SchedShutdownReturn

SpecSched == SchedInit /\ [][SchedNext]_vars

(***************************************************************************)
(* The client: one status request and how its error is classified.         *)
(*                                                                         *)
(* An error is [isNil, net, msg]: net tells whether a net.Error is in its  *)
(* chain ("temp", "perm" by its Temporary()) or none is; msg is its text,  *)
(* cut in pieces so that "status: 5" can be looked for in it.              *)
(***************************************************************************)
Nil == [isNil |-> TRUE, net |-> "none", msg |-> << >>]

\* fmt.Errorf without %w
NewError(msg) == [isNil |-> FALSE, net |-> "none", msg |-> msg]

\* fmt.Errorf("prefix: %w", err)
Wrap(prefix, err) == [isNil |-> FALSE, net |-> err.net, msg |-> <<prefix>> \o err.msg]

\* The error of http.Client.Do on a network failure (a *url.Error).
NetError(temporary) ==
    [isNil |-> FALSE, net |-> IF temporary THEN "temp" ELSE "perm",
     msg |-> <<"Get: network error">>]

\* The error of http.Client.Do under a cancelled context: a *url.Error
\* around context.Canceled, whose Temporary() is false.
CtxError == [isNil |-> FALSE, net |-> "perm", msg |-> <<"Get: context canceled">>]

\* "status: %d" for a three digit code: the text, the first digit, the rest.
StatusText(code) ==
    <<"status: ",
      CASE code \div 100 = 2 -> "2" [] code \div 100 = 4 -> "4"
        [] code \div 100 = 5 -> "5" [] OTHER -> "?",
      CASE code % 100 = 0 -> "00" [] code % 100 = 1 -> "01"
        [] code % 100 = 2 -> "02" [] code % 100 = 3 -> "03"
        [] code % 100 = 4 -> "04" [] OTHER -> "??">>

\* strings.Contains on the pieces of a text.
Contains(msg, pat) ==
    \E i \in 1..(Len(msg) - Len(pat) + 1) :
        \A j \in 1..Len(pat) : msg[i + j - 1] = pat[j]

isTemporaryError(err) ==
    IF err.isNil THEN FALSE
    ELSE IF err.net # "none" THEN err.net = "temp"
    ELSE Contains(err.msg, <<"status: ", "5">>)

\* The statuses a remote may report; "pending" stands for a status the
\* client does not know.
Statuses == {"created", "running", "finished", "failed", "pending"}

\* A response body that quotes a server-side status line.
QuotingBody == <<"upstream said ", "status: ", "5", "xx">>

\* What one status request may come back with.  kind "http" is a response
\* with a code, a body, and the status its JSON body carries ("malformed"
\* when the body is no JSON document).
HttpResponses ==
    {[kind |-> "http", code |-> 200, body |-> << >>, status |-> st] :
        st \in Statuses \cup {"malformed"}}
    \cup {[kind |-> "http", code |-> 202, body |-> << >>, status |-> "running"]}
    \cup {[kind |-> "http", code |-> 404, body |-> b, status |-> "malformed"] :
            b \in {<< >>, QuotingBody}}
    \cup {[kind |-> "http", code |-> 503, body |-> << >>, status |-> "malformed"]}

NetResponses ==
    {[kind |-> k, code |-> 0, body |-> << >>, status |-> "malformed"] :
        k \in {"netTemp", "netPerm"}}

CtxResponse == [kind |-> "ctx", code |-> 0, body |-> << >>, status |-> "malformed"]

\* The responses a request may get: under a context cancelled before the
\* request was made, only the context's error.
Responses(cancelledBefore, cancelledNow) ==
    IF cancelledBefore THEN {CtxResponse}
    ELSE HttpResponses \cup NetResponses
         \cup (IF cancelledNow THEN {CtxResponse} ELSE {})

\* The error of client.Do for a response, Nil when there is a response.
DoError(resp) ==
    CASE resp.kind = "netTemp" -> NetError(TRUE)
      [] resp.kind = "netPerm" -> NetError(FALSE)
      [] resp.kind = "ctx"     -> CtxError
      [] OTHER                 -> Nil

\* GetExport of the later client: a single request.
GetExport(resp) ==
    IF ~DoError(resp).isNil
    THEN [err |-> IF isTemporaryError(DoError(resp))
                  THEN Wrap("temporary error getting export: ", DoError(resp))
                  ELSE Wrap("failed to get export: ", DoError(resp)),
          status |-> "none"]
    ELSE IF resp.code # 200 /\ resp.code # 202
    THEN [err |-> IF resp.code >= 500
                  THEN NewError(<<"temporary error from server, ">>
                                \o StatusText(resp.code) \o <<", body: ">>
                                \o resp.body)
                  ELSE NewError(<<"failed to get export, ">>
                                \o StatusText(resp.code) \o <<", body: ">>
                                \o resp.body),
          status |-> "none"]
    ELSE IF resp.status = "malformed"
    THEN [err |-> NewError(<<"failed to decode response: ", "json">>),
          status |-> "none"]
    ELSE [err |-> Nil, status |-> resp.status]

\* getExportOnce of client.go.
getExportOnce(resp) ==
    IF ~DoError(resp).isNil
    THEN [err |-> Wrap("failed to get export: ", DoError(resp)), status |-> "none"]
    ELSE IF resp.code # 200
    THEN [err |-> NewError(<<"failed to get export, ">>
                           \o StatusText(resp.code) \o <<", body: ">>
                           \o resp.body),
          status |-> "none"]
    ELSE IF resp.status = "malformed"
    THEN [err |-> NewError(<<"failed to decode response: ", "json">>),
          status |-> "none"]
    ELSE [err |-> Nil, status |-> resp.status]

\* GetGroupExport, the same in both clients.
GetGroupExport(resp) ==
    IF ~DoError(resp).isNil
    THEN [err |-> Wrap("failed to get group export: ", DoError(resp)),
          status |-> "none"]
    ELSE IF resp.code # 200
    THEN [err |-> NewError(<<"failed to get group export, ">>
                           \o StatusText(resp.code) \o <<", body: ">>
                           \o resp.body),
          status |-> "none"]
    ELSE IF resp.status = "malformed"
    THEN [err |-> NewError(<<"failed to decode group export status: ",
                             "json">>),
          status |-> "none"]
    ELSE [err |-> Nil, status |-> resp.status]

(***************************************************************************)
(* WaitForExport.  impl = "later" is the client with the status switch,    *)
(* impl = "client.go" the one with the retrying GetExport, impl = "group"  *)
(* WaitForGroupExport, which both clients have alike.                      *)
(***************************************************************************)
PollSleep == 5         \* the later client waits 5 s between polls
LegacySleep == 10      \* client.go sleeps 10 s between polls
maxRetries == 3        \* client.go: attempts of one GetExport
backoff == 1           \* client.go: backoff unit, in seconds

\* The waits that sleep 10 s between polls: WaitForExport of client.go, and
\* WaitForGroupExport, which is the same in both clients.
Legacy == {"client.go", "group"}

\* Whether a failed status request is made again: GetExport of client.go
\* retries the temporary errors, WaitForGroupExport calls GetGroupExport,
\* which makes one request.
Retried(impl, err) == impl = "client.go" /\ isTemporaryError(err)

\* The switch on export.Status of the later client.
OnStatus(status) ==
    CASE status = "finished" -> "return export"
      [] status = "failed"   -> "return failed"
      [] status \in {"created", "running"} -> "wait"
      [] OTHER -> "return unknown"

\* The plausible slip of taking every status but "created" for the end of
\* the export.
OnStatusLegacy_NotCreated(status) ==
    IF status # "created" THEN "return export" ELSE "sleep"

\* client.go tests for "finished" only.
OnStatusLegacy(status) ==
    IF status = "finished" THEN "return export" ELSE "sleep"

\* What the request that has just come back was to the wait loop: an
\* in-progress status, finished, failed, any other status, or an error that
\* isTemporaryError takes for temporary or not.
Observed(out) ==
    IF out.err.isNil
    THEN CASE out.status \in {"created", "running"} -> "progress"
           [] out.status = "finished" -> "finished"
           [] out.status = "failed"   -> "failed"
           [] OTHER -> "unknown"
    ELSE IF isTemporaryError(out.err) THEN "temp"
    ELSE "fatal"

\* No request has come back yet.
NoResponse == [kind |-> "none", code |-> 0, body |-> << >>,
               malformed |-> FALSE]

WaitStart(impl, timeout) ==
    [impl |-> impl, pc |-> "top", now |-> 0, timeout |-> timeout,
     deadline |-> timeout, cancelled |-> FALSE, preCancelled |-> FALSE,
     retry |-> 0, tries |-> 0, waited |-> 0,
     calls |-> 0, reqs |-> 0, reqStart |-> 0,
     lastObs |-> "none", lastStatus |-> "none", quiet |-> TRUE,
     lastResp |-> NoResponse,
     clean |-> TRUE, prog |-> 0,
     result |-> "none", retStatus |-> "none",
     cancelPc |-> "none", cancelNow |-> 0, cancelReqs |-> 0]

Return(ww, result, status) ==
    [ww EXCEPT !.pc = "done", !.result = result, !.retStatus = status]

\* w after a request got resp and came back as out, d seconds after it was
\* made.
Polled(resp, out, d) ==
    [w EXCEPT !.now = @ + d,
              !.lastResp = [kind |-> resp.kind, code |-> resp.code,
                            body |-> resp.body,
                            malformed |-> resp.status = "malformed"],
              !.reqs = @ + 1,
              !.tries = @ + 1,
              !.lastObs = Observed(out),
              !.clean = @ /\ Observed(out) \in {"progress", "finished"},
              !.prog = IF w.clean /\ Observed(out) = "progress"
                       THEN @ + 1 ELSE @,
              !.lastStatus = IF out.err.isNil THEN out.status ELSE w.lastStatus,
              !.quiet = @ /\ Observed(out) \in {"progress", "temp"}]

WaitInit ==
    /\ states = EmptyStates
    /\ statePath = ""
    /\ disk = AbsentFile
    /\ clock = 0
    /\ last = NoCall
    /\ log = << >>
    /\ tick = IdleTick
    /\ \E impl \in {"later"} \cup Legacy, t \in 0..MaxTimeout :
          w = WaitStart(impl, t)
    /\ conc = IdleConc
    /\ sched = IdleSched
    /\ cr = IdleCreate
    /\ fn = IdleFn

\* ---- the later client ----

\* Loop top: the deadline check, then the GetExport call is made.
LaterTop ==
    /\ w.impl = "later" /\ w.pc = "top"
    /\ w' = IF w.now > w.deadline
            THEN Return(w, "timeout", "none")
            ELSE [w EXCEPT !.pc = "poll", !.calls = @ + 1, !.reqStart = w.now,
                           !.tries = 0, !.preCancelled = w.cancelled]
    /\ UNCHANGED <<states, statePath, disk, clock, last, log, tick, conc, sched, cr, fn>>

\* GetExport comes back and WaitForExport acts on it.
LaterPoll ==
    /\ w.impl = "later" /\ w.pc = "poll"
    /\ \E resp \in Responses(w.preCancelled, w.cancelled), d \in 0..MaxLatency :
        \E out \in {GetExport(resp)} :
        \E ww \in {Polled(resp, out, d)} :
          w' = IF ~out.err.isNil
               THEN IF isTemporaryError(out.err)
                    THEN [ww EXCEPT !.pc = "sleepTemp"]
                    ELSE Return(ww, "getErr", "none")
               ELSE CASE OnStatus(out.status) = "return export" ->
                            Return(ww, "ok", out.status)
                      [] OnStatus(out.status) = "return failed" ->
                            Return(ww, "failedErr", "none")
                      [] OnStatus(out.status) = "wait" ->
                            [ww EXCEPT !.pc = "waitSelect"]
                      [] OTHER -> Return(ww, "unknownErr", "none")
    /\ UNCHANGED <<states, statePath, disk, clock, last, log, tick, conc, sched, cr, fn>>

\* time.Sleep(5 * time.Second) after a temporary error is over.
LaterSleepOver ==
    /\ w.impl = "later" /\ w.pc = "sleepTemp"
    /\ w' = [w EXCEPT !.now = @ + PollSleep, !.pc = "top"]
    /\ UNCHANGED <<states, statePath, disk, clock, last, log, tick, conc, sched, cr, fn>>

\* select: <-time.After(5 * time.Second)
LaterSelectTimer ==
    /\ w.impl = "later" /\ w.pc = "waitSelect" /\ ~w.cancelled
    /\ w' = [w EXCEPT !.now = @ + PollSleep, !.pc = "top"]
    /\ UNCHANGED <<states, statePath, disk, clock, last, log, tick, conc, sched, cr, fn>>

\* select: <-ctx.Done()
LaterSelectDone ==
    /\ w.impl = "later" /\ w.pc = "waitSelect" /\ w.cancelled
    /\ w' = Return(w, "ctxErr", "none")
    /\ UNCHANGED <<states, statePath, disk, clock, last, log, tick, conc, sched, cr, fn>>

\* ---- client.go; WaitForGroupExport of both clients ----


\* Loop top: the deadline check, the select on ctx.Done(), then GetExport
\* is called and makes its first attempt.
LegacyTop ==
    /\ w.impl \in Legacy /\ w.pc = "top"
    /\ w' = IF ~(w.now < w.deadline)
            THEN Return(w, "timeout", "none")
            ELSE IF w.cancelled
            THEN Return(w, "ctxErr", "none")
            ELSE [w EXCEPT !.pc = "try", !.retry = 0, !.tries = 0,
                           !.waited = 0, !.calls = @ + 1,
                           !.reqStart = w.now, !.preCancelled = FALSE]
    /\ UNCHANGED <<states, statePath, disk, clock, last, log, tick, conc, sched, cr, fn>>

\* One attempt of GetExport comes back.
LegacyTry ==
    /\ w.impl \in Legacy /\ w.pc = "try"
    /\ \E resp \in Responses(w.preCancelled, w.cancelled), d \in 0..MaxLatency :
        \E out \in {IF w.impl = "group" THEN GetGroupExport(resp)
                     ELSE getExportOnce(resp)} :
        \E ww \in {Polled(resp, out, d)} :
          w' = IF out.err.isNil
               THEN IF OnStatusLegacy(out.status) = "return export"
                    THEN Return(ww, "ok", out.status)
                    ELSE [ww EXCEPT !.pc = "sleep"]
               ELSE IF ~Retried(w.impl, out.err)
               THEN Return(ww, "getErr", "none")
               ELSE [ww EXCEPT !.pc = "backoff"]
    /\ UNCHANGED <<states, statePath, disk, clock, last, log, tick, conc, sched, cr, fn>>

\* The plausible slip of waiting the same backoff after every attempt.
BackoffWait_Constant(retry) == backoff

\* backoff * time.Duration(retry+1)
BackoffWait(retry) == backoff * (retry + 1)

\* select in GetExport: <-time.After(backoff * (retry+1)); the loop goes on
\* or, the attempts used up, GetExport fails and WaitForExport with it.
LegacyBackoffTimer ==
    /\ w.impl \in Legacy /\ w.pc = "backoff" /\ ~w.cancelled
    /\ w' = IF w.retry + 1 < maxRetries
            THEN [w EXCEPT !.now = @ + BackoffWait(w.retry),
                           !.waited = BackoffWait(w.retry),
                           !.retry = @ + 1, !.pc = "try",
                           !.reqStart = w.now + BackoffWait(w.retry),
                           !.preCancelled = w.cancelled]
            ELSE Return([w EXCEPT !.now = @ + BackoffWait(w.retry),
                                  !.waited = BackoffWait(w.retry),
                                  !.retry = @ + 1],
                        "retriesErr", "none")
    /\ UNCHANGED <<states, statePath, disk, clock, last, log, tick, conc, sched, cr, fn>>

\* select in GetExport: <-ctx.Done()
LegacyBackoffDone ==
    /\ w.impl \in Legacy /\ w.pc = "backoff" /\ w.cancelled
    /\ w' = Return(w, "ctxErr", "none")
    /\ UNCHANGED <<states, statePath, disk, clock, last, log, tick, conc, sched, cr, fn>>

\* time.Sleep(10 * time.Second) is over.
LegacySleepOver ==
    /\ w.impl \in Legacy /\ w.pc = "sleep"
    /\ w' = [w EXCEPT !.now = @ + LegacySleep, !.pc = "top"]
    /\ UNCHANGED <<states, statePath, disk, clock, last, log, tick, conc, sched, cr, fn>>

\* The caller cancels the context.
Cancel ==
    /\ w.pc \notin {"done", "idle"} /\ ~w.cancelled
    /\ w' = [w EXCEPT !.cancelled = TRUE, !.cancelPc = w.pc,
                      !.cancelNow = w.now, !.cancelReqs = w.reqs]
    /\ UNCHANGED <<states, statePath, disk, clock, last, log, tick, conc, sched, cr, fn>>

WaitNext ==
    \/ LaterTop
    \/ LaterPoll
    \/ LaterSleepOver
    \/ LaterSelectTimer
    \/ LaterSelectDone
    \/ LegacyTop
    \/ LegacyTry
    \/ LegacyBackoffTimer
    \/ LegacyBackoffDone
    \/ LegacySleepOver
    \/ Cancel

SpecWait == WaitInit /\ [][WaitNext]_vars

(***************************************************************************)
(* CreateExport and CreateGroupExport (SpecCreate): one POST and what the  *)
(* call makes of the answer.                                               *)
(***************************************************************************)
MaxCreates == 2      \* creation calls in one run of SpecCreate

\* The bodies an answer to the POST may carry when it is no export.
ErrorBodies == {<< >>, <<"404 Not Found">>, QuotingBody}

\* What the POST may come back with: a response with a code and a body
\* (export: the body is the JSON document of an export), or a network error.
CreateResponses ==
    {[kind |-> "http", code |-> c, body |-> <<"export">>, export |-> TRUE] :
        c \in {200, 201, 202}}
    \cup {[kind |-> "http", code |-> c, body |-> b, export |-> FALSE] :
            c \in {201, 400, 404, 503}, b \in ErrorBodies}
    \cup {[kind |-> k, code |-> 0, body |-> << >>, export |-> FALSE] :
            k \in {"netTemp", "netPerm"}}

\* The endpoint of the POST.
CreateEndpoint(impl, kind) ==
    IF impl = "client.go"
    THEN (IF kind = "project" THEN "/api/v4/projects/%s/vulnerability_exports"
                              ELSE "/api/v4/groups/%s/vulnerability_exports")
    ELSE (IF kind = "project"
            THEN "/api/v4/security/projects/%s/vulnerability_exports"
            ELSE "/api/v4/security/groups/%s/vulnerability_exports")

\* The text the errors of a creation call start with.
CreatePrefix(kind) ==
    IF kind = "project" THEN "failed to create export"
                        ELSE "failed to create group export"

\* The plausible slip of testing for 200 OK, as the status calls do.
CreateExport_AcceptOK(kind, resp) ==
    IF ~DoError(resp).isNil
    THEN [err |-> Wrap(CreatePrefix(kind), DoError(resp)), export |-> FALSE]
    ELSE IF resp.code # 200
    THEN [err |-> NewError(<<CreatePrefix(kind), ", ">>
                           \o StatusText(resp.code) \o <<", body: ">>
                           \o resp.body),
          export |-> FALSE]
    ELSE IF ~resp.export
    THEN [err |-> NewError(<<"failed to decode response: ", "json">>),
          export |-> FALSE]
    ELSE [err |-> Nil, export |-> TRUE]

\* CreateExport (kind "project") and CreateGroupExport (kind "group") once
\* client.Do has come back.
CreateExport(kind, resp) ==
    IF ~DoError(resp).isNil
    THEN [err |-> Wrap(CreatePrefix(kind), DoError(resp)), export |-> FALSE]
    ELSE IF resp.code # 201
    THEN [err |-> NewError(<<CreatePrefix(kind), ", ">>
                           \o StatusText(resp.code) \o <<", body: ">>
                           \o resp.body),
          export |-> FALSE]
    ELSE IF ~resp.export
    THEN [err |-> NewError(<<IF kind = "project"
                             THEN "failed to decode response: "
                             ELSE "failed to decode group export response: ",
                             "json">>),
          export |-> FALSE]
    ELSE [err |-> Nil, export |-> TRUE]

\* The plausible slip of sending the POST again when the answer was an
\* error, as GetExport of client.go does for its GET.
CreateAttempts_Retrying(out) == IF out.err.isNil THEN 1 ELSE maxRetries

\* The requests a creation call sends for an answer that came to out.
CreateAttempts(out) == 1

NoCreateResponse == [kind |-> "none", code |-> 0, body |-> << >>,
                     export |-> FALSE]

CreateInit ==
    /\ StoreInit
    /\ tick = IdleTick
    /\ w = IdleWait
    /\ conc = IdleConc
    /\ sched = IdleSched
    /\ fn = IdleFn
    /\ \E impl \in {"client.go", "later"} :
          cr = [impl |-> impl, kind |-> "none", pc |-> "idle", n |-> 0,
                reqs |-> 0, endpoint |-> "none", resp |-> NoCreateResponse,
                err |-> Nil, export |-> FALSE]

\* The call is made and its request sent.
CreateCalled ==
    /\ cr.pc \in {"idle", "done"}
    /\ cr.n < MaxCreates
    /\ \E kind \in Kinds :
          cr' = [cr EXCEPT !.kind = kind, !.pc = "sent", !.n = @ + 1,
                           !.reqs = 1,
                           !.endpoint = CreateEndpoint(cr.impl, kind),
                           !.resp = NoCreateResponse,
                           !.err = Nil, !.export = FALSE]
    /\ UNCHANGED <<states, statePath, disk, clock, last, log, tick, w, conc,
                   sched, fn>>

\* The answer is in and the call returns.
CreateReturns ==
    /\ cr.pc = "sent"
    /\ \E resp \in CreateResponses :
        \E out \in {CreateExport(cr.kind, resp)} :
          cr' = [cr EXCEPT !.pc = "done", !.resp = resp,
                           !.reqs = CreateAttempts(out),
                           !.err = out.err, !.export = out.export]
    /\ UNCHANGED <<states, statePath, disk, clock, last, log, tick, w, conc,
                   sched, fn>>

CreateNext ==
    \/ CreateCalled
    \/ CreateReturns

SpecCreate == CreateInit /\ [][CreateNext]_vars

(***************************************************************************)
(* ComputeKey and ComputeVersionHash applied to pairs of records           *)
(* (SpecDerive).  A record is a Go map from the column names of the CSV    *)
(* header, as the header spells them, to the values of a row.              *)
(***************************************************************************)
\* strings.ToLower of the column names and severity labels of the model.
ToLower(name) ==
    CASE name = "Project Name" -> "project name"
      [] name = "Tool"         -> "tool"
      [] name = "Scanner Name" -> "scanner name"
      [] name = "CVE"          -> "cve"
      [] name = "Location"     -> "location"
      [] name = "Status"       -> "status"
      [] name = "Severity"     -> "severity"
      [] name = "SEVERITY"     -> "severity"
      [] name = "Title"        -> "title"
      [] name \in {"Critical", "CRITICAL"} -> "critical"
      [] name \in {"High", "HIGH"}         -> "high"
      [] name \in {"Medium", "MEDIUM"}     -> "medium"
      [] name \in {"Low", "LOW"}           -> "low"
      [] name \in {"Info", "INFO"}         -> "info"
      [] name = "Unknown"      -> "unknown"
      [] OTHER                 -> name

\* The row of Row(cve, status) under a header spelled in lower case.
LowerRow(cve, status) ==
    [f \in {ToLower(g) : g \in RowFields} |->
        CASE f = "project name" -> "p"
          [] f = "tool"         -> "sast"
          [] f = "scanner name" -> "semgrep"
          [] f = "cve"          -> cve
          [] f = "location"     -> "f.go:10"
          [] f = "status"       -> status
          [] f = "severity"     -> "high"]

\* A row with the given CVE, Location and Severity values.
RowWith(cve, location, severity) ==
    [Row(cve, "detected") EXCEPT !["Location"] = location,
                                 !["Severity"] = severity]

\* A row of a payload that has no Severity column.
WithoutSeverity(record) ==
    [f \in DOMAIN record \ {"Severity"} |-> record[f]]

\* The records of SpecDerive: rows that differ in a value, in the spelling
\* of the header, in a column being absent or empty, and in where a "|"
\* stands in their values.
DeriveRecords ==
    {Row("CVE-1", "detected"), Row("CVE-1", "resolved"),
     Row("CVE-2", "detected"),
     LowerRow("CVE-1", "detected"),
     RowWith("CVE-1", "f.go:10", ""),
     WithoutSeverity(Row("CVE-1", "detected")),
     RowWith("x|y", "z", "high"),
     RowWith("x", "y|z", "high"),
     Sparse(ExportProjectID, "detected")}

NoDerived == [key |-> "none", hash |-> "none"]

DeriveInit ==
    /\ StoreInit
    /\ tick = IdleTick
    /\ w = IdleWait
    /\ conc = IdleConc
    /\ sched = IdleSched
    /\ cr = IdleCreate
    /\ \E a \in DeriveRecords :
          fn = [pc |-> "input", a |-> a, b |-> a,
                da |-> NoDerived, db |-> NoDerived]

\* ComputeKey and ComputeVersionHash are applied to both records.
DeriveApply ==
    /\ fn.pc = "input"
    /\ fn' = [fn EXCEPT
                !.pc = "done",
                !.da = [key |-> JoinedKey(fn.a), hash |-> HashedVersion(fn.a)],
                !.db = [key |-> JoinedKey(fn.b), hash |-> HashedVersion(fn.b)]]
    /\ UNCHANGED <<states, statePath, disk, clock, last, log, tick, w, conc,
                   sched, cr>>

\* The pair of records is exchanged for another.
DeriveAgain ==
    /\ fn.pc = "done"
    /\ \E a, b \in DeriveRecords :
          fn' = [pc |-> "input", a |-> a, b |-> b,
                 da |-> NoDerived, db |-> NoDerived]
    /\ UNCHANGED <<states, statePath, disk, clock, last, log, tick, w, conc,
                   sched, cr>>

DeriveNext ==
    \/ DeriveApply
    \/ DeriveAgain

SpecDerive == DeriveInit /\ [][DeriveNext]_vars

(***************************************************************************)
(* Config.Validate (SpecConfig).  variant "paths" is the configuration     *)
(* with a list of paths, variant "url" the one with a URL and a type.      *)
(* Durations are in seconds.                                               *)
(***************************************************************************)
MaxPaths == 2                  \* paths in a configuration
defaultPollInterval == 60      \* 1 * time.Minute
defaultExportTimeout == 900    \* 15 * time.Minute

\* A URL: whether url.Parse accepts it, and its path in pieces, a "/" or the
\* text between two of them.
NoURL == [raw |-> "", ok |-> TRUE, path |-> << >>]
URLs ==
    {NoURL,
     [raw |-> "https://gitlab.com", ok |-> TRUE, path |-> << >>],
     [raw |-> "https://gitlab.com/grp/", ok |-> TRUE,
      path |-> <<"/", "grp", "/">>],
     [raw |-> "https://gitlab.com/grp/prj", ok |-> TRUE,
      path |-> <<"/", "grp", "/", "prj">>],
     [raw |-> "://gitlab", ok |-> FALSE, path |-> << >>]}

\* strings.Trim(path, "/")
RECURSIVE TrimSlashes(_)
TrimSlashes(path) ==
    IF path = << >> THEN path
    ELSE IF Head(path) = "/" THEN TrimSlashes(Tail(path))
    ELSE IF path[Len(path)] = "/"
         THEN TrimSlashes(SubSeq(path, 1, Len(path) - 1))
    ELSE path

\* strings.Split(path, "/"): the pieces between the slashes, one "" for an
\* empty text.
RECURSIVE SplitSlashes(_, _)
SplitSlashes(path, cur) ==
    IF path = << >> THEN <<cur>>
    ELSE IF Head(path) = "/" THEN <<cur>> \o SplitSlashes(Tail(path), "")
    ELSE SplitSlashes(Tail(path), cur \o Head(path))

validateGitLabURL(c) ==
    IF ~c.URL.ok THEN "parse error"
    ELSE LET parts == SplitSlashes(TrimSlashes(c.URL.path), "")
         IN  IF c.Type = "group" /\ (Len(parts) = 0 \/ parts[1] = "")
             THEN "invalid group URL format, expected at least one segment"
             ELSE IF c.Type = "project" /\ Len(parts) < 2
             THEN "invalid project URL format, expected at least two segments"
             ELSE "nil"

\* The configuration with its defaults filled in.
WithDefaults(c) ==
    [c EXCEPT !.PollInterval = IF @ <= 0 THEN defaultPollInterval ELSE @,
              !.ExportTimeout = IF @ <= 0 THEN defaultExportTimeout ELSE @]

WithBaseURL(c) ==
    [c EXCEPT !.BaseURL = IF @ = "" THEN "https://gitlab.com" ELSE @]

\* The plausible slip of testing for no path at all, and not for one path.
ValidatePaths_AtLeastOne(c) ==
    IF c.Token = "" THEN [err |-> "token cannot be empty", cfg |-> c]
    ELSE IF Len(c.Paths) = 0
    THEN [err |-> "exactly one path must be configured", cfg |-> c]
    ELSE IF c.Paths[1].ID = ""
    THEN [err |-> "id cannot be empty", cfg |-> c]
    ELSE IF c.Paths[1].Type # "project" /\ c.Paths[1].Type # "group"
    THEN [err |-> "type must be either 'project' or 'group'", cfg |-> c]
    ELSE [err |-> "nil", cfg |-> WithDefaults(WithBaseURL(c))]

\* Config.Validate of the configuration with paths.
ValidatePaths(c) ==
    IF c.Token = "" THEN [err |-> "token cannot be empty", cfg |-> c]
    ELSE IF Len(c.Paths) # 1
    THEN [err |-> "exactly one path must be configured", cfg |-> c]
    ELSE IF c.Paths[1].ID = ""
    THEN [err |-> "id cannot be empty", cfg |-> c]
    ELSE IF c.Paths[1].Type # "project" /\ c.Paths[1].Type # "group"
    THEN [err |-> "type must be either 'project' or 'group'", cfg |-> c]
    ELSE [err |-> "nil", cfg |-> WithDefaults(WithBaseURL(c))]

\* Config.Validate of the configuration with a URL.
ValidateURL(c) ==
    IF c.Token = "" THEN [err |-> "token cannot be empty", cfg |-> c]
    ELSE IF c.URL.raw = "" THEN [err |-> "url cannot be empty", cfg |-> c]
    ELSE IF c.Type # "project" /\ c.Type # "group"
    THEN [err |-> "type must be either 'project' or 'group'", cfg |-> c]
    ELSE IF validateGitLabURL(c) # "nil"
    THEN [err |-> "invalid GitLab URL", cfg |-> WithBaseURL(c)]
    ELSE [err |-> "nil", cfg |-> WithDefaults(WithBaseURL(c))]

\* The plausible slip of defaulting the unset (zero) values only.
Validate_DefaultZeroOnly(c) ==
    LET out == IF c.variant = "paths" THEN ValidatePaths(c) ELSE ValidateURL(c)
    IN  IF out.err # "nil" THEN out
        ELSE [out EXCEPT
                !.cfg.PollInterval =
                    IF c.PollInterval = 0 THEN defaultPollInterval
                    ELSE c.PollInterval,
                !.cfg.ExportTimeout =
                    IF c.ExportTimeout = 0 THEN defaultExportTimeout
                    ELSE c.ExportTimeout]

Validate(c) ==
    IF c.variant = "paths" THEN ValidatePaths(c) ELSE ValidateURL(c)

\* The values a configuration file may give.
PathConfigs == [ID : {"", "12345"}, Type : {"project", "group", "invalid"}]
PathLists == UNION {[1..n -> PathConfigs] : n \in 0..MaxPaths}
Durations == {-1, 0, 30}

\* Config{}: the configuration before the file is read into it.
ZeroConfig(variant) ==
    [variant |-> variant, Token |-> "", Paths |-> << >>, URL |-> NoURL,
     Type |-> "", BaseURL |-> "", PollInterval |-> 0, ExportTimeout |-> 0]

Configs(variant) ==
    {[ZeroConfig(variant) EXCEPT
        !.Token = t, !.Paths = ps, !.URL = u, !.Type = ty,
        !.PollInterval = pi, !.ExportTimeout = et] :
        t \in {"", "test-token"},
        ps \in IF variant = "paths" THEN PathLists ELSE {<< >>},
        u \in IF variant = "url" THEN URLs ELSE {NoURL},
        ty \in IF variant = "url" THEN {"project", "group", "invalid"}
               ELSE {""},
        pi \in Durations, et \in Durations}

ConfigInit ==
    /\ StoreInit
    /\ tick = IdleTick
    /\ w = IdleWait
    /\ conc = IdleConc
    /\ sched = IdleSched
    /\ cr = IdleCreate
    /\ \E variant \in {"paths", "url"} :
          fn = [pc |-> "new", input |-> ZeroConfig(variant),
                cfg |-> ZeroConfig(variant), err |-> "none"]

\* The configuration file is read into the Config.
ConfigRead ==
    /\ fn.pc = "new"
    /\ \E c \in Configs(fn.input.variant) :
          fn' = [fn EXCEPT !.pc = "read", !.input = c, !.cfg = c]
    /\ UNCHANGED <<states, statePath, disk, clock, last, log, tick, w, conc,
                   sched, cr>>

\* Validate is called on it.
ConfigValidate ==
    /\ fn.pc = "read"
    /\ fn' = [fn EXCEPT !.pc = "validated",
                        !.cfg = Validate(fn.input).cfg,
                        !.err = Validate(fn.input).err]
    /\ UNCHANGED <<states, statePath, disk, clock, last, log, tick, w, conc,
                   sched, cr>>

ConfigNext ==
    \/ ConfigRead
    \/ ConfigValidate

SpecConfig == ConfigInit /\ [][ConfigNext]_vars

(***************************************************************************)
(* convertToLogs (SpecLogs): the severity of the log record made of a row. *)
(* Both receivers have the same convertToLogs.                             *)
(***************************************************************************)
\* plog.SeverityNumber
SeverityNumberUnspecified == 0
SeverityNumberTrace == 1
SeverityNumberInfo == 9
SeverityNumberWarn == 13
SeverityNumberError == 17
SeverityNumberFatal == 21

\* strings.EqualFold on the texts of the model.
EqualFold(a, b) == ToLower(a) = ToLower(b)

\* findField from column i on: the value of the first column whose name
\* matches and that the record reaches.
RECURSIVE findFieldFrom(_, _, _, _)
findFieldFrom(header, record, fieldName, i) ==
    IF i > Len(header) THEN [value |-> "", ok |-> FALSE]
    ELSE IF EqualFold(header[i], fieldName) /\ i <= Len(record)
    THEN [value |-> record[i], ok |-> TRUE]
    ELSE findFieldFrom(header, record, fieldName, i + 1)

findField(header, record, fieldName) ==
    findFieldFrom(header, record, fieldName, 1)

\* The plausible slip of switching on the label as it is written.
SeverityNumberOf_AsWritten(severity) ==
    CASE severity = "critical" -> SeverityNumberFatal
      [] severity = "high"     -> SeverityNumberError
      [] severity = "medium"   -> SeverityNumberWarn
      [] severity = "low"      -> SeverityNumberInfo
      [] severity = "info"     -> SeverityNumberTrace
      [] OTHER                 -> SeverityNumberUnspecified

\* The switch on strings.ToLower(severity); no case leaves the number of
\* the new log record, SeverityNumberUnspecified.
SeverityNumberOf(severity) ==
    CASE ToLower(severity) = "critical" -> SeverityNumberFatal
      [] ToLower(severity) = "high"     -> SeverityNumberError
      [] ToLower(severity) = "medium"   -> SeverityNumberWarn
      [] ToLower(severity) = "low"      -> SeverityNumberInfo
      [] ToLower(severity) = "info"     -> SeverityNumberTrace
      [] OTHER                          -> SeverityNumberUnspecified

\* The severity text and number convertToLogs sets.
convertToLogs(header, record) ==
    LET severity == findField(header, record, "severity")
    IN  IF severity.ok
        THEN [text |-> severity.value,
              number |-> SeverityNumberOf(severity.value)]
        ELSE [text |-> "", number |-> SeverityNumberUnspecified]

\* The headers and rows of SpecLogs: the severity column spelled three ways
\* or missing, the row with a label or cut short before it.
LogHeaders == {<<"Title", "Severity">>, <<"Title", "severity">>,
               <<"Title", "SEVERITY">>, <<"Severity", "Title">>, <<"Title">>}
SeverityLabels ==
    {"critical", "Critical", "CRITICAL", "high", "High", "HIGH",
     "medium", "Medium", "low", "LOW", "info", "Info", "Unknown", ""}
LogRows == {<<"Test Vuln", l>> : l \in SeverityLabels} \cup {<<"Test Vuln">>}

NoLog == [text |-> "none", number |-> -1]

LogsInit ==
    /\ StoreInit
    /\ tick = IdleTick
    /\ w = IdleWait
    /\ conc = IdleConc
    /\ sched = IdleSched
    /\ cr = IdleCreate
    /\ fn = [pc |-> "input", header |-> <<"Title", "Severity">>,
             record |-> <<"Test Vuln", "High">>, lr |-> NoLog]

\* convertToLogs is applied to the row.
LogsConvert ==
    /\ fn.pc = "input"
    /\ fn' = [fn EXCEPT !.pc = "done",
                        !.lr = convertToLogs(fn.header, fn.record)]
    /\ UNCHANGED <<states, statePath, disk, clock, last, log, tick, w, conc,
                   sched, cr>>

\* The next row, of this or of another payload.
LogsAgain ==
    /\ fn.pc = "done"
    /\ \E h \in LogHeaders, r \in LogRows :
          fn' = [pc |-> "input", header |-> h, record |-> r, lr |-> NoLog]
    /\ UNCHANGED <<states, statePath, disk, clock, last, log, tick, w, conc,
                   sched, cr>>

LogsNext ==
    \/ LogsConvert
    \/ LogsAgain

SpecLogs == LogsInit /\ [][LogsNext]_vars

(***************************************************************************)
(* pollExport of receiver.go (SpecPoll): a ticker of 10 s raced against    *)
(* the context that ends ExportTimeout after the call, or with the         *)
(* caller's.                                                               *)
(***************************************************************************)
MaxPollTimeout == 21
TickerPeriod == 10     \* time.NewTicker(10 * time.Second)

\* What r.client.GetExport may come back with: an error, or an export with
\* a status; "pending" stands for a status pollExport does not know.
PollResults == {"error", "finished", "failed", "created", "started", "pending"}

\* The plausible slip of giving up on a status the switch does not know.
OnPoll_UnknownFails(res) ==
    CASE res = "error"    -> "continue"
      [] res = "finished" -> "return export"
      [] res = "failed"   -> "return failed"
      [] res \in {"created", "started"} -> "continue"
      [] OTHER            -> "return failed"

\* The error check and the switch on export.Status.
OnPoll(res) ==
    CASE res = "error"    -> "continue"
      [] res = "finished" -> "return export"
      [] res = "failed"   -> "return failed"
      [] res \in {"created", "started"} -> "continue"
      [] OTHER            -> "continue"

\* timeoutCtx.Done() is closed.
TimeoutCtxDone(p) == p.cancelled \/ p.now >= p.deadline

\* The ticker after the clock reached now: a tick that fell due is in the
\* channel (which holds one), the next is a period after it.
TickerAt(p, now) ==
    IF now >= p.nextTick
    THEN [p EXCEPT !.now = now, !.pending = TRUE,
                   !.nextTick = @ + TickerPeriod]
    ELSE [p EXCEPT !.now = now]

PollStart(timeout) ==
    [impl |-> "pollExport", pc |-> "select", now |-> 0, timeout |-> timeout,
     deadline |-> IF timeout > 0 THEN timeout ELSE 0,
     cancelled |-> FALSE, nextTick |-> TickerPeriod, pending |-> FALSE,
     polls |-> 0, lastRes |-> "none", result |-> "none"]

PollInit ==
    /\ StoreInit
    /\ tick = IdleTick
    /\ \E t \in 0..MaxPollTimeout : w = PollStart(t)
    /\ conc = IdleConc
    /\ sched = IdleSched
    /\ cr = IdleCreate
    /\ fn = IdleFn

\* select with no case ready: pollExport blocks until the next tick or the
\* deadline, whichever is first.
PollBlocked ==
    /\ w.impl = "pollExport" /\ w.pc = "select"
    /\ ~w.pending /\ ~TimeoutCtxDone(w)
    /\ w' = TickerAt(w, IF w.nextTick < w.deadline THEN w.nextTick
                        ELSE w.deadline)
    /\ UNCHANGED <<states, statePath, disk, clock, last, log, tick, conc,
                   sched, cr, fn>>

\* select: <-timeoutCtx.Done()
PollSelectDone ==
    /\ w.impl = "pollExport" /\ w.pc = "select"
    /\ TimeoutCtxDone(w)
    /\ w' = [w EXCEPT !.pc = "done", !.result = "timedOut"]
    /\ UNCHANGED <<states, statePath, disk, clock, last, log, tick, conc,
                   sched, cr, fn>>

\* select: <-ticker.C; GetExport is called.
PollSelectTick ==
    /\ w.impl = "pollExport" /\ w.pc = "select"
    /\ w.pending
    /\ w' = [w EXCEPT !.pc = "poll", !.pending = FALSE]
    /\ UNCHANGED <<states, statePath, disk, clock, last, log, tick, conc,
                   sched, cr, fn>>

\* GetExport comes back and pollExport acts on it.
PollReturns ==
    /\ w.impl = "pollExport" /\ w.pc = "poll"
    /\ \E res \in PollResults, d \in 0..MaxLatency :
        \E p \in {[TickerAt(w, w.now + d) EXCEPT !.polls = @ + 1,
                                                 !.lastRes = res]} :
          w' = CASE OnPoll(res) = "return export" ->
                        [p EXCEPT !.pc = "done", !.result = "ok"]
                 [] OnPoll(res) = "return failed" ->
                        [p EXCEPT !.pc = "done", !.result = "failedErr"]
                 [] OTHER -> [p EXCEPT !.pc = "select"]
    /\ UNCHANGED <<states, statePath, disk, clock, last, log, tick, conc,
                   sched, cr, fn>>

\* The caller's context is cancelled.
PollCancel ==
    /\ w.impl = "pollExport" /\ w.pc # "done" /\ ~w.cancelled
    /\ w' = [w EXCEPT !.cancelled = TRUE]
    /\ UNCHANGED <<states, statePath, disk, clock, last, log, tick, conc,
                   sched, cr, fn>>

\* The steps of the goroutine in pollExport.
PollStep ==
    \/ PollBlocked
    \/ PollSelectDone
    \/ PollSelectTick
    \/ PollReturns

PollNext ==
    \/ PollStep
    \/ PollCancel

\* Timers fire, GetExport comes back and the goroutine is scheduled.
SpecPoll == PollInit /\ [][PollNext]_vars /\ WF_vars(PollStep)

(***************************************************************************)
(* state.go under concurrent callers (SpecConc).  Every goroutine makes    *)
(* its calls one after the other; a call advances by one lock operation,   *)
(* one access to sm.states under the lock, or one file write.              *)
(***************************************************************************)
Procs == 1..NProcs

\* The records the goroutines call the store with.
ConcRecords == {Row("CVE-1", "detected"), Row("CVE-1", "resolved")}

\* "row" is the sequence of processExport for one data row: ShouldProcess
\* and, when it answers true, UpdateState.
ConcOps == {"ShouldProcess", "UpdateState", "GetState", "row"}

\* Where a call starts.
EntryPc(op) ==
    CASE op = "ShouldProcess" -> "sp_rlock"
      [] op = "row"           -> "sp_rlock"
      [] op = "UpdateState"   -> "us_lock"
      [] op = "GetState"      -> "gs_rlock"

\* The plausible slip of taking the shared lock around the map write.
LockKind_AllShared(pc) == "shared"

\* The lock operation a goroutine blocks in: sm.mu.RLock() in ShouldProcess,
\* save and GetState, sm.mu.Lock() in UpdateState.
LockKind(pc) ==
    CASE pc = "sp_rlock" -> "shared"
      [] pc = "gs_rlock" -> "shared"
      [] pc = "sv_rlock" -> "shared"
      [] pc = "us_lock"  -> "exclusive"

LockPcs == {"sp_rlock", "gs_rlock", "sv_rlock", "us_lock"}

\* The program points that read sm.states, and the one that writes it.
ReadPcs == {"sp_read", "gs_read", "sv_marshal"}
WritePcs == {"us_write"}

\* The program point that follows a lock operation.
AfterLock(pc) ==
    CASE pc = "sp_rlock" -> "sp_read"
      [] pc = "gs_rlock" -> "gs_read"
      [] pc = "sv_rlock" -> "sv_marshal"
      [] pc = "us_lock"  -> "us_write"

\* sync.RWMutex: a shared lock is granted when no writer holds the mutex,
\* the exclusive lock when nobody holds it.
CanLock(mu, kind) ==
    IF kind = "shared" THEN mu.writer = 0
    ELSE mu.writer = 0 /\ mu.readers = {}

Locked(mu, p, kind) ==
    IF kind = "shared" THEN [mu EXCEPT !.readers = @ \cup {p}]
    ELSE [mu EXCEPT !.writer = p]

\* RUnlock / Unlock by p.
Unlocked(mu, p) ==
    [writer |-> IF mu.writer = p THEN 0 ELSE mu.writer,
     readers |-> mu.readers \ {p}]

\* A goroutine that is in no call of the store.
IdleProc == [pc |-> "idle", op |-> "none", rec |-> Row("CVE-1", "detected"),
             data |-> AbsentFile]

ConcInit ==
    /\ StoreInit
    /\ tick = IdleTick
    /\ w = IdleWait
    /\ conc = [mu |-> [writer |-> 0, readers |-> {}],
               g |-> [p \in Procs |-> IdleProc],
               calls |-> 0, failed |-> FALSE, news |-> 0]
    /\ sched = IdleSched
    /\ cr = IdleCreate
    /\ fn = IdleFn

\* A goroutine calls the store.
ConcCall ==
    \E p \in Procs, op \in ConcOps, r \in ConcRecords :
        /\ conc.g[p].pc = "idle"
        /\ conc.calls < MaxCalls
        /\ conc' = [conc EXCEPT !.g[p] = [pc |-> EntryPc(op), op |-> op,
                                          rec |-> r, data |-> AbsentFile],
                                !.calls = @ + 1]
        /\ UNCHANGED <<states, statePath, disk, clock, last, log, tick, w, sched, cr, fn>>

\* sm.mu.RLock() or sm.mu.Lock() returns.
ConcLock ==
    \E p \in Procs :
        /\ conc.g[p].pc \in LockPcs
        /\ CanLock(conc.mu, LockKind(conc.g[p].pc))
        /\ conc' = [conc EXCEPT !.mu = Locked(@, p, LockKind(conc.g[p].pc)),
                                !.g[p].pc = AfterLock(@)]
        /\ UNCHANGED <<states, statePath, disk, clock, last, log, tick, w, sched, cr, fn>>

\* ShouldProcess: state, exists := sm.states[key]; RUnlock; the answer.
\* conc.news counts the callers of the row sequence that were answered
\* true for a key the map did not hold.
ConcShouldProcess ==
    \E p \in Procs :
        /\ conc.g[p].pc = "sp_read"
        /\ conc' = [conc EXCEPT
                        !.mu = Unlocked(@, p),
                        !.news = IF /\ conc.g[p].op = "row"
                                    /\ ComputeKey(conc.g[p].rec) \notin DOMAIN states
                                 THEN @ + 1 ELSE @,
                        !.g[p] = IF /\ conc.g[p].op = "row"
                                    /\ ShouldProcess(states, conc.g[p].rec)
                                 THEN [@ EXCEPT !.pc = "us_lock"]
                                 ELSE IdleProc]
        /\ UNCHANGED <<states, statePath, disk, clock, last, log, tick, w, sched, cr, fn>>

\* GetState: the lookup, and the deferred RUnlock.
ConcGetState ==
    \E p \in Procs :
        /\ conc.g[p].pc = "gs_read"
        /\ conc' = [conc EXCEPT !.mu = Unlocked(@, p), !.g[p] = IdleProc]
        /\ UNCHANGED <<states, statePath, disk, clock, last, log, tick, w, sched, cr, fn>>

\* UpdateState: the map write and Unlock; then save() is entered, which
\* returns at once when no path is configured.
ConcUpdate ==
    \E p \in Procs :
        /\ conc.g[p].pc = "us_write"
        /\ states' = Upsert(states, conc.g[p].rec, clock + 1)
        /\ clock' = clock + 1
        /\ conc' = [conc EXCEPT !.mu = Unlocked(@, p),
                                !.g[p] = IF statePath = "" THEN IdleProc
                                         ELSE [@ EXCEPT !.pc = "sv_rlock"]]
        /\ UNCHANGED <<statePath, disk, last, log, tick, w, sched, cr, fn>>

\* save: json.Marshal(sm.states); RUnlock.
ConcMarshal ==
    \E p \in Procs :
        /\ conc.g[p].pc = "sv_marshal"
        /\ conc' = [conc EXCEPT !.mu = Unlocked(@, p),
                                !.g[p].data = Marshal(states),
                                !.g[p].pc = "sv_write"]
        /\ UNCHANGED <<states, statePath, disk, clock, last, log, tick, w, sched, cr, fn>>

\* save: os.WriteFile(sm.statePath, data, 0600), and UpdateState returns.
ConcWriteFile ==
    \E p \in Procs, ok \in BOOLEAN :
        /\ conc.g[p].pc = "sv_write"
        /\ disk' = IF ok THEN conc.g[p].data ELSE disk
        /\ conc' = [conc EXCEPT !.failed = @ \/ ~ok,
                                !.g[p] = IdleProc]
        /\ UNCHANGED <<states, statePath, clock, last, log, tick, w, sched, cr, fn>>

ConcNext ==
    \/ ConcCall
    \/ ConcLock
    \/ ConcShouldProcess
    \/ ConcGetState
    \/ ConcUpdate
    \/ ConcMarshal
    \/ ConcWriteFile

SpecConc == ConcInit /\ [][ConcNext]_vars

(***************************************************************************)
(* The state store, call by call (Spec).                                   *)
(***************************************************************************)
NoEntry(r) == \A k \in DOMAIN states : k # ComputeKey(r)

StoredHashDiffers(r) ==
    \E k \in DOMAIN states :
        k = ComputeKey(r) /\ states[k].LastSeenHash # ComputeVersionHash(r)

\* C2: for every record R and every store state, ShouldProcess(R) returns
\* true if and only if the store has no entry under IdentityKey(R) or the
\* stored lastSeenHash differs from ContentHash(R).
C2_ShouldProcessIffNewOrChanged ==
    /\ \A r \in Records :
          ShouldProcess(states, r) <=> (NoEntry(r) \/ StoredHashDiffers(r))
    /\ last.op = "ShouldProcess" =>
          (last.ret <=> (NoEntry(last.rec) \/ StoredHashDiffers(last.rec)))

\* ShouldProcess has answered true for a record whose key is stored.
C2_Witness ==
    /\ last.op = "ShouldProcess"
    /\ last.ret = TRUE
    /\ ~NoEntry(last.rec)

\* UpdateState call i was made with the key and hash of r, and no later
\* call carried that key with another hash.
AcceptedAndNotSuperseded(r, i) ==
    /\ ComputeKey(log[i]) = ComputeKey(r)
    /\ ComputeVersionHash(log[i]) = ComputeVersionHash(r)
    /\ \A j \in (i + 1)..Len(log) :
          ComputeKey(log[j]) = ComputeKey(r) =>
              ComputeVersionHash(log[j]) = ComputeVersionHash(r)

\* C3: after UpdateState(R), ShouldProcess(R') returns false for every R'
\* with the key and hash of R, in every later state until an UpdateState
\* with that key and a different hash occurs.
C3_AcceptedIsSkipped ==
    /\ \A r \in Records :
          (\E i \in 1..Len(log) : AcceptedAndNotSuperseded(r, i)) =>
              ~ShouldProcess(states, r)
    /\ (/\ last.op = "ShouldProcess"
        /\ \E i \in 1..Len(log) : AcceptedAndNotSuperseded(last.rec, i)) =>
              last.ret = FALSE

\* ShouldProcess has answered false for a record accepted before the last
\* UpdateState call, which was for another record.
C3_Witness ==
    /\ last.op = "ShouldProcess"
    /\ last.ret = FALSE
    /\ Len(log) >= 2
    /\ last.rec # log[Len(log)]
    /\ \E i \in 1..(Len(log) - 1) : AcceptedAndNotSuperseded(last.rec, i)

VersionFieldsOf(r) ==
    << Field(r, "Status"), Field(r, "Severity"), Field(r, "Details"),
       Field(r, "Additional Info"), Field(r, "Dismissal Reason") >>

\* The last UpdateState call made with the key of r carried other values
\* in the fields that mark a material change.
ChangedSinceAccepted(r) ==
    \E i \in 1..Len(log) :
        /\ ComputeKey(log[i]) = ComputeKey(r)
        /\ \A j \in (i + 1)..Len(log) : ComputeKey(log[j]) # ComputeKey(r)
        /\ VersionFieldsOf(log[i]) # VersionFieldsOf(r)

\* C4: a record whose key is stored with a different content (its Status
\* changed, say) gets ShouldProcess = true; after the following
\* UpdateState of it, a byte-identical repeat gets ShouldProcess = false.
C4_ChangedAcceptedThenSkipped ==
    /\ \A r \in Records : ChangedSinceAccepted(r) => ShouldProcess(states, r)
    /\ (last.op = "UpdateState" /\ last.known /\ last.before) =>
          ~ShouldProcess(states, last.rec)
    /\ (last.op = "ShouldProcess" /\ ChangedSinceAccepted(last.rec)) =>
          last.ret = TRUE

\* UpdateState has just accepted a record whose key was stored with
\* another hash, and a repeat of the record is now skipped.
C4_Witness ==
    /\ last.op = "UpdateState"
    /\ last.known
    /\ last.before
    /\ ~ShouldProcess(states, last.rec)

(***************************************************************************)
(* Ticks of processExport (SpecTick).                                      *)
(***************************************************************************)
\* C1: each new or changed finding is emitted exactly once: when a tick
\* receives the payload the previous tick received, and every row of the
\* previous tick was delivered to the consumer, the later tick hands no
\* event to the consumer.
C1_RepeatedPayloadEmitsNothing ==
    [][(/\ tick'.n = tick.n + 1
        /\ TickClean(tick)
        /\ tick'.received
        /\ tick'.payload = tick.payload) => Len(tick'.handed) = 0]_vars

(***************************************************************************)
(* WaitForExport (SpecWait).                                               *)
(***************************************************************************)
Returned(result) == w.pc = "done" /\ w.result = result

\* The places where WaitForExport waits between two polls.
WaitBoundaries == {"waitSelect", "sleepTemp", "sleep", "backoff"}

\* C5: WaitForExport returns success exactly when the remote reports
\* Finished on a poll made within the timeout: a successful return has
\* Finished as the last observed status, hands back that Finished export,
\* and the request that observed it was made no later than the deadline;
\* and a poll that observes Finished makes it return success.
C5_SuccessIffFinishedInTime ==
    /\ Returned("ok") => /\ w.lastStatus = "finished"
                         /\ w.retStatus = "finished"
                         /\ w.reqStart <= w.deadline
    /\ w.lastStatus = "finished" => Returned("ok")

\* C6: once a poll has observed Failed, WaitForExport has returned the
\* export-failed error: it is in no wait and makes no further request.
C6_FailedReturnsAtOnce ==
    w.lastStatus = "failed" => Returned("failedErr")

\* C7: a Temporary error from a poll does not abort WaitForExport: when it
\* has returned and its last poll ended in a Temporary error, it returned
\* because the timeout elapsed or the context was cancelled.
C7_TemporaryDoesNotAbort ==
    (w.pc = "done" /\ w.lastObs = "temp") => w.result \in {"timeout", "ctxErr"}

\* C8: when every poll returned Created, Running or a Temporary error and
\* the context was not cancelled, WaitForExport returns nothing but the
\* timed-out error, and not before the timeout has elapsed.
C8_QuietRunTimesOut ==
    (w.pc = "done" /\ w.quiet /\ ~w.cancelled) =>
        (w.result = "timeout" /\ w.now >= w.deadline)

\* C9: when the context is cancelled while WaitForExport waits between two
\* polls, it returns the cancellation error with no time slept and no
\* further request made since the cancellation.
C9_CancelEndsTheWait ==
    (w.pc = "done" /\ w.cancelPc \in WaitBoundaries) =>
        /\ w.result = "ctxErr"
        /\ w.now = w.cancelNow
        /\ w.reqs = w.cancelReqs

\* C10: a status that is none of Created, Running, Finished, Failed does not
\* end the wait: WaitForExport never returns an error for having seen it.
C10_UnknownStatusKeepsWaiting ==
    (w.pc = "done" /\ w.lastObs = "unknown") => w.result \in {"timeout", "ctxErr"}

(***************************************************************************)
(* The state store under concurrent callers (SpecConc).                    *)
(***************************************************************************)
AllReturned == \A p \in Procs : conc.g[p].pc = "idle"

\* C11: UpdateState mutates the map and writes the snapshot as one unit:
\* when every UpdateState call made has returned and no file write failed,
\* the file at the configured path holds exactly the in-memory mapping.
C11_SnapshotIsTheMap ==
    (AllReturned /\ ~conc.failed /\ statePath # "" /\ clock > 0) =>
        disk = Marshal(states)

\* C12: the ShouldProcess(R)-then-UpdateState(R) sequences of concurrent
\* callers do not interleave: of the callers that run it for a record no
\* one has stored yet, at most one is answered true.
C12_OneCallerSeesNew ==
    conc.news <= 1

\* C13: every write of sm.states happens with the exclusive lock held and
\* every read with the shared lock held, and no goroutine reads or writes
\* the map while another writes it.
C13_LockDiscipline ==
    \A p \in Procs :
        /\ conc.g[p].pc \in WritePcs => conc.mu.writer = p
        /\ conc.g[p].pc \in ReadPcs => p \in conc.mu.readers
        /\ conc.g[p].pc \in WritePcs =>
              \A q \in Procs \ {p} : conc.g[q].pc \notin ReadPcs \cup WritePcs

\* Two goroutines read the map at the same time, one of them in save.
C13_Witness ==
    \E p, q \in Procs :
        /\ p # q
        /\ conc.g[p].pc = "sv_marshal"
        /\ conc.g[q].pc \in {"sp_read", "gs_read"}
        /\ {p, q} \subseteq conc.mu.readers

(***************************************************************************)
(* The state store across restarts (SpecLoad).                             *)
(***************************************************************************)
\* C14: round trip: after UpdateState calls on a store with a configured
\* path that all succeeded, a new StateManager constructed from the written
\* file gives the same ShouldProcess decision as the store it replaces for
\* every record whose key that store held.
C14_RoundTrip ==
    [][(/\ last'.op = "NewStateManager"
        /\ statePath # ""
        /\ last.up
        /\ last.failed = {}
        /\ Len(log) > last.born)
       => (/\ last'.up
           /\ \A r \in LoadRecords :
                ComputeKey(r) \in DOMAIN states =>
                    ShouldProcess(states', r) = ShouldProcess(states, r))]_vars

\* UpdateState call i of the running process found its file write failing.
FailedWrite(i) == i \in last.failed /\ i > last.born

C16_Construction ==
    last.op = "NewStateManager" =>
        /\ statePath = "" =>
              (~last.io /\ last.up /\ ~last.nilMap /\ states = EmptyStates)
        /\ (statePath # "" /\ disk = AbsentFile) =>
              (last.up /\ ~last.nilMap /\ states = EmptyStates)
        /\ (statePath # "" /\ disk \in {CorruptFile, NullFile}) => ~last.up

(***************************************************************************)
(* The rows of a tick (SpecTick).                                          *)
(***************************************************************************)
\* The number of rows of the trace that were handed to the consumer.
RECURSIVE HandOffs(_, _)
HandOffs(trace, i) ==
    IF i > Len(trace) THEN 0
    ELSE (IF trace[i].handed # "none" THEN 1 ELSE 0) + HandOffs(trace, i + 1)

\* C17: for every data row of a tick of processExport: when ShouldProcess
\* answered true the row was handed to the consumer once and UpdateState
\* was called for it only if that hand-off succeeded; when it answered
\* false the row produced no consumer event and left the map as it was.
C17_RowByRow ==
    (tick.impl = "rows" /\ tick.received) =>
        /\ Len(tick.trace) = Len(tick.payload.rows)
        /\ Len(tick.handed) = HandOffs(tick.trace, 1)
        /\ \A i \in 1..Len(tick.trace) :
              /\ tick.trace[i].should =>
                    /\ tick.trace[i].handed # "none"
                    /\ tick.trace[i].updated => tick.trace[i].handed = "ok"
              /\ ~tick.trace[i].should =>
                    /\ tick.trace[i].handed = "none"
                    /\ ~tick.trace[i].updated
                    /\ tick.trace[i].same

\* A tick of processExport has skipped one row of its payload and has
\* delivered and recorded another.
C17_Witness ==
    /\ tick.impl = "rows"
    /\ tick.received
    /\ \E i, k \in 1..Len(tick.trace) :
          /\ ~tick.trace[i].should
          /\ tick.trace[k].handed = "ok" /\ tick.trace[k].updated

\* C18: a consumer hand-off that fails is row-level: the tick returns no
\* error for it and attends to every following row; UpdateState is not
\* called for the failed row, whose map entry stays as it was, and it is
\* called for every row that was delivered.
C18_HandOffFailureIsRowLevel ==
    tick.received =>
        /\ (\E i \in 1..Len(tick.trace) : tick.trace[i].handed = "fail") =>
              /\ tick.result # "failed to consume logs"
              /\ Len(tick.trace) = Len(tick.payload.rows)
        /\ \A i \in 1..Len(tick.trace) :
              /\ tick.trace[i].handed = "fail" =>
                    (~tick.trace[i].updated /\ tick.trace[i].same)
              /\ tick.trace[i].handed = "ok" => tick.trace[i].updated

\* C19: a tick that aborts on a data row that fails to parse leaves the
\* state store as it was before the tick, in memory and on disk.
C19_BadRowCommitsNothing ==
    [][(tick'.n = tick.n + 1 /\ tick'.result = "failed to read CSV record")
       => (states' = states /\ disk' = disk)]_vars

\* C20: a tick in which WaitForExport returns an error ends with the
\* 'failed to wait for export' error and commits nothing: GetExportData is
\* not called, no event is handed to the consumer, and the state store is
\* the one before the tick.
C20_WaitErrorCommitsNothing ==
    [][(tick'.n = tick.n + 1 /\ tick'.failed = "WaitForExport")
       => (/\ tick'.result = "failed to wait for export"
           /\ \A i \in 1..Len(tick'.calls) : tick'.calls[i] # "GetExportData"
           /\ ~tick'.received
           /\ tick'.handed = << >>
           /\ tick'.updated = << >>
           /\ ~tick'.setState
           /\ states' = states
           /\ disk' = disk)]_vars

\* A tick has ended in the wait error, after a tick that recorded findings.
C20_Witness ==
    /\ tick.n >= 2
    /\ tick.failed = "WaitForExport"
    /\ tick.result = "failed to wait for export"
    /\ states # EmptyStates

\* The step of a tick a client call belongs to: 1 validate or resolve the
\* target, 2 create the export, 3 wait for it, 4 fetch the payload.
StepOf(call) ==
    CASE call \in {"resolveProjectID", "resolveGroupID",
                   "validateProjectID", "validateGroupID"} -> 1
      [] call \in {"CreateExport", "CreateGroupExport"} -> 2
      [] call = "WaitForExport" -> 3
      [] call = "GetExportData" -> 4

\* The calls of the last tick are steps 1, 2, ... in that order, and a call
\* that failed is the last one made.
StepsInOrder ==
    /\ Len(tick.calls) >= 1
    /\ \A i \in 1..Len(tick.calls) : StepOf(tick.calls[i]) = i
    /\ tick.failed \in {"none", "csvReader.Read"}
          \/ tick.failed = tick.calls[Len(tick.calls)]

\* A failed validation is reported as such and no export is created.
FailedValidationStops ==
    (tick.failed # "none" /\ tick.failed # "csvReader.Read"
        /\ StepOf(tick.failed) = 1) =>
        /\ tick.result \in {"invalid project ID", "invalid group ID",
                            "failed to resolve project ID",
                            "failed to resolve group ID"}
        /\ \A i \in 1..Len(tick.calls) : StepOf(tick.calls[i]) < 2

\* C21: a tick runs validate/resolve, create, wait, fetch in that order and a
\* failing step prevents every later one; a failed validation returns an
\* 'invalid ... ID' / 'failed to resolve' error with no export created, a
\* failed creation a 'failed to create export' error with WaitForExport never
\* called.
C21_FailingStepStopsTheTick ==
    tick.n > 0 =>
        /\ StepsInOrder
        /\ FailedValidationStops
        /\ (tick.failed \in {"CreateExport", "CreateGroupExport"}) =>
              /\ tick.result = "failed to create export"
              /\ \A i \in 1..Len(tick.calls) : tick.calls[i] # "WaitForExport"

\* C21 as amended: the same, where the failed creation of a group export
\* returns a 'failed to create group export' error.
C21_FailingStepStopsTheTickByKind ==
    tick.n > 0 =>
        /\ StepsInOrder
        /\ FailedValidationStops
        /\ (tick.failed \in {"CreateExport", "CreateGroupExport"}) =>
              /\ tick.result = IF tick.kind = "project"
                               THEN "failed to create export"
                               ELSE "failed to create group export"
              /\ \A i \in 1..Len(tick.calls) : tick.calls[i] # "WaitForExport"

\* A group tick whose CreateGroupExport failed, after a tick that failed its
\* validation or resolution.
C21_Witness ==
    /\ tick.n = 2
    /\ tick.kind = "group"
    /\ tick.failed = "CreateGroupExport"
    /\ Len(tick.calls) = 2
    /\ tick.result = "failed to create group export"

\* checkExports returns to the loop with a failed tick.
FailedTickReturns ==
    /\ sched.pc = "check"
    /\ sched'.running < sched.running
    /\ sched'.err # "nil"

\* C22: one bad tick never stops future polling: when checkExports has failed
\* at any step the error is logged and nothing else, the loop is back at
\* its select, the goroutine ends only when the context is cancelled, and
\* with the context not cancelled a tick waiting in ticker.C makes the loop
\* call checkExports again.
C22_BadTickIsOnlyLogged ==
    /\ [][FailedTickReturns =>
            /\ sched'.pc = "select"
            /\ Len(sched'.logs) >= 1
            /\ sched'.cancelled = sched.cancelled
            /\ sched'.fires = sched.fires]_vars
    /\ [](sched.pc = "exited" => sched.cancelled)
    /\ []((sched.pc = "select" /\ ~sched.cancelled /\ sched.tickerC = 1) =>
            (ENABLED SchedSelectTick) /\ ~(ENABLED SchedSelectDone))

\* After a failed tick, with the context not cancelled, the next tick runs.
C22_Witness ==
    /\ sched.n = 2
    /\ sched.bad = 1
    /\ sched.pc = "check"
    /\ ~sched.cancelled

\* C23: ticks execute strictly sequentially: at most one checkExports is
\* running at any time, also while ticks of the ticker fall due during a
\* running one.
C23_OneTickAtATime ==
    /\ sched.running <= 1
    /\ sched.running = 1 <=> sched.pc = "check"

\* A tick still running after the ticker has fired twice more.
C23_Witness ==
    /\ sched.n = 1
    /\ sched.pc = "check"
    /\ sched.running = 1
    /\ sched.fires = 3
    /\ sched.tickerC = 1

\* C24: checkExports is invoked only while not cancelled: once the shared
\* context has been cancelled the loop starts no further tick.
C24_NoTickOnceCancelled ==
    [][sched.cancelled => sched'.n = sched.n]_vars

\* C25: Shutdown cancels the shared context and always returns: nil only
\* once the polling goroutine has exited, and with the context of the
\* Shutdown call expired while a tick is still unwinding it does not block
\* and returns that context's error.
C25_ShutdownReturns ==
    /\ (sched.sd # "idle" /\ sched.started) => sched.cancelled
    /\ sched.result = "nil" => (sched.done /\ sched.pc \in {"none", "exited"})
    /\ sched.result = "ctxErr" => sched.expired
    /\ (sched.sd = "select" /\ (sched.done \/ sched.expired)) =>
            ENABLED SchedShutdownReturn
    /\ (sched.sd = "select" /\ sched.expired /\ sched.pc = "check") =>
            ShutdownResult(sched.done, sched.expired) = {"ctxErr"}

\* Shutdown has returned the error of its context while a tick is running.
C25_Witness ==
    /\ sched.sd = "returned"
    /\ sched.result = "ctxErr"
    /\ sched.pc = "check"
    /\ sched.cancelled

\* C26: a status request that met a transient network failure or a 5xx
\* response ends in a Temporary error, and one that met a 4xx response or a
\* malformed body in a Fatal one, whatever the body of the response.
C26_ErrorClassification ==
    /\ (w.lastResp.kind = "netTemp"
            \/ (w.lastResp.kind = "http" /\ w.lastResp.code >= 500)) =>
          w.lastObs = "temp"
    /\ (w.lastResp.kind = "http"
            /\ \/ w.lastResp.code \in 400..499
               \/ (w.lastResp.code \in {200, 202} /\ w.lastResp.malformed)) =>
          w.lastObs = "fatal"

\* C27: CreateExport and CreateGroupExport succeed only on a 201 response;
\* any other response code yields an error that carries the status and the
\* body, and the creation request is sent exactly once.
C27_CreatedOnly ==
    cr.pc = "done" =>
        /\ cr.reqs = 1
        /\ (cr.err.isNil /\ cr.export) =>
              (cr.resp.kind = "http" /\ cr.resp.code = 201)
        /\ cr.err.isNil <=> cr.export
        /\ (cr.resp.kind = "http" /\ cr.resp.code # 201) =>
              /\ ~cr.err.isNil
              /\ Contains(cr.err.msg, StatusText(cr.resp.code))
              /\ Contains(cr.err.msg, <<", body: ">> \o cr.resp.body)

\* A group export refused with 404 and a body, after another call.
C27_Witness ==
    /\ cr.pc = "done"
    /\ cr.n = 2
    /\ cr.kind = "group"
    /\ cr.resp.code = 404
    /\ cr.resp.body = <<"404 Not Found">>
    /\ ~cr.err.isNil

\* C28: on an error-free run of status calls whose answers are in-progress
\* statuses up to the first Finished, the wait returns success with that
\* Finished, having made exactly as many status calls as answers have come:
\* the in-progress ones and the Finished one.
C28_SuccessAfterKCalls ==
    /\ (w.clean /\ w.lastStatus = "finished") =>
          /\ Returned("ok")
          /\ w.calls = w.prog + 1
          /\ w.reqs = w.prog + 1
    /\ (w.clean /\ Returned("ok")) => w.lastStatus = "finished"
    /\ (w.clean /\ w.lastStatus # "finished") => w.reqs = w.prog

\* WaitForExport of client.go returned success on its third call, after
\* two in-progress answers.
C28_Witness ==
    /\ w.impl = "client.go"
    /\ Returned("ok")
    /\ w.clean
    /\ w.prog = 2
    /\ w.calls = 3

\* C29: ShouldProcess and GetState are pure reads: for every record and
\* every store state, the call leaves the in-memory mapping and the file of
\* the snapshot as they were.
C29_ReadsArePure ==
    [][last'.op \in {"ShouldProcess", "GetState"} =>
            (states' = states /\ disk' = disk)]_vars

\* GetState has found the entry of a record whose snapshot is on disk, and
\* ShouldProcess would skip it.
C29_Witness ==
    /\ last.op = "GetState"
    /\ ~last.ret.isNil
    /\ disk.kind = "doc"
    /\ ~ShouldProcess(states, last.rec)

\* The keys of a map with the hash stored under each.
HashesOf(m) == [k \in DOMAIN m |-> m[k].LastSeenHash]

\* UpdateState is called with the record of the UpdateState call before it.
UpdateStateAgain ==
    /\ Len(log) >= 1
    /\ Len(log') = Len(log) + 1
    /\ log'[Len(log')] = log[Len(log)]

\* C30: UpdateState is idempotent up to the timestamp: calling
\* UpdateState(R) a second time leaves the set of keys and the lastSeenHash
\* of every key as the first call left them.
C30_UpdateStateIdempotent ==
    [][UpdateStateAgain => HashesOf(states') = HashesOf(states)]_vars

\* UpdateState has been called twice in a row with one record, and the
\* second call has renewed the timestamp of its entry.
C30_Witness ==
    /\ Len(log) >= 2
    /\ log[Len(log)] = log[Len(log) - 1]
    /\ last.op = "UpdateState"
    /\ states[ComputeKey(last.rec)].LastSeenAt = clock
    /\ clock >= 2

\* The key fields and the hashed fields of state.go.
KeyFieldNames == {"Project Name", "Tool", "Scanner Name", "CVE", "Location"}
HashFieldNames == {"Status", "Severity", "Details", "Additional Info",
                   "Dismissal Reason"}

\* Two records carry the same values under names that differ in letter
\* case at most.
SameUpToCase(a, b) ==
    /\ {ToLower(f) : f \in DOMAIN a} = {ToLower(g) : g \in DOMAIN b}
    /\ \A f \in DOMAIN a, g \in DOMAIN b :
          ToLower(f) = ToLower(g) => a[f] = b[g]

\* Two records agree on every field when an absent field counts as "".
SameUpToAbsent(a, b) ==
    \A f \in KeyFieldNames \cup HashFieldNames : Field(a, f) = Field(b, f)

\* C31: key and hash derivation looks fields up case-insensitively and
\* treats absent fields as the empty string: records that differ only in
\* the letter case of their field names, or only in a field being absent
\* in one and empty in the other, have the same IdentityKey and ContentHash.
C31_CaseAndAbsence ==
    (fn.pc = "done" /\ (SameUpToCase(fn.a, fn.b) \/ SameUpToAbsent(fn.a, fn.b)))
        => fn.da = fn.db

\* The values of the key fields of a record.
KeyTuple(r) ==
    <<Field(r, "Project Name"), Field(r, "Tool"), Field(r, "Scanner Name"),
      Field(r, "CVE"), Field(r, "Location")>>

\* C38: IdentityKey derivation is injective on the key fields: two records
\* whose (Project Name, Tool, Scanner Name, CVE, Location) tuples differ get
\* different IdentityKeys.
C38_KeyInjective ==
    (fn.pc = "done" /\ KeyTuple(fn.a) # KeyTuple(fn.b)) => fn.da.key # fn.db.key

\* The keys of the records UpdateState has been called with.
AcceptedKeys == {ComputeKey(log[i]) : i \in 1..Len(log)}

\* C32: the store holds one entry per IdentityKey accepted so far, an
\* acceptance overwrites the entry of its key and adds no second one, and
\* no operation deletes an entry: the set of stored keys never shrinks.
C32_EntryLifecycle ==
    /\ [](DOMAIN states = AcceptedKeys)
    /\ [][/\ DOMAIN states \subseteq DOMAIN states'
          /\ Len(log') > Len(log) =>
                /\ DOMAIN states' = DOMAIN states \cup {ComputeKey(last'.rec)}
                /\ states'[ComputeKey(last'.rec)].LastSeenHash
                        = ComputeVersionHash(last'.rec)
                /\ \A k \in DOMAIN states \ {ComputeKey(last'.rec)} :
                        states'[k] = states[k]]_vars

\* Three acceptances have left two entries: one of them overwrote the
\* entry of its key with another hash.
C32_Witness ==
    /\ Len(log) = 3
    /\ Cardinality(DOMAIN states) = 2
    /\ last.op = "UpdateState"
    /\ last.known
    /\ last.before

C34_PositiveDurations ==
    (fn.pc = "validated" /\ fn.err = "nil") =>
        /\ fn.cfg.PollInterval > 0
        /\ fn.cfg.ExportTimeout > 0
        /\ fn.cfg.PollInterval = IF fn.input.PollInterval <= 0
                                 THEN defaultPollInterval
                                 ELSE fn.input.PollInterval
        /\ fn.cfg.ExportTimeout = IF fn.input.ExportTimeout <= 0
                                  THEN defaultExportTimeout
                                  ELSE fn.input.ExportTimeout

\* A configuration with a URL, a negative interval and a set timeout has
\* been accepted.
C34_Witness ==
    /\ fn.pc = "validated"
    /\ fn.err = "nil"
    /\ fn.input.variant = "url"
    /\ fn.input.PollInterval < 0
    /\ fn.input.ExportTimeout > 0
    /\ fn.cfg.PollInterval = defaultPollInterval

\* The label of the row as the claim reads it: the value under the column
\* named severity in whatever letter case, "missing" when there is none.
LabelOf(header, record) ==
    IF \E i \in 1..Len(header) : ToLower(header[i]) = "severity"
                                    /\ i <= Len(record)
    THEN LET i == CHOOSE j \in 1..Len(header) :
                      ToLower(header[j]) = "severity" /\ j <= Len(record)
         IN  [found |-> TRUE, text |-> record[i]]
    ELSE [found |-> FALSE, text |-> ""]

\* The place of a label on the scale: 5 critical down to 1 info, 0 for
\* every other label.
Rank(label) ==
    CASE ToLower(label) = "critical" -> 5
      [] ToLower(label) = "high"     -> 4
      [] ToLower(label) = "medium"   -> 3
      [] ToLower(label) = "low"      -> 2
      [] ToLower(label) = "info"     -> 1
      [] OTHER                       -> 0

\* The severity numbers in the order of the scale.
Ordinals ==
    <<SeverityNumberTrace, SeverityNumberInfo, SeverityNumberWarn,
      SeverityNumberError, SeverityNumberFatal>>

\* C35: convertToLogs maps the severity label, compared case-insensitively,
\* onto a strictly ordered scale critical > high > medium > low > info,
\* keeps the original text as the severity text, and gives every other or
\* missing label the lowest (unspecified) ordinal.
C35_SeverityScale ==
    fn.pc = "done" =>
        LET label == LabelOf(fn.header, fn.record)
        IN  /\ \A i, j \in 1..5 : i < j => Ordinals[i] < Ordinals[j]
            /\ SeverityNumberUnspecified < Ordinals[1]
            /\ fn.lr.text = label.text
            /\ fn.lr.number = IF label.found /\ Rank(label.text) > 0
                              THEN Ordinals[Rank(label.text)]
                              ELSE SeverityNumberUnspecified

\* A row labelled CRITICAL under a column spelled severity.
C35_Witness ==
    /\ fn.pc = "done"
    /\ fn.header = <<"Title", "severity">>
    /\ fn.record = <<"Test Vuln", "CRITICAL">>
    /\ fn.lr.text = "CRITICAL"
    /\ fn.lr.number = SeverityNumberFatal

\* C36: GetExport of client.go makes at most 3 status requests, returns
\* the first successful result, returns a non-temporary error at once
\* without retrying, waits an increasing backoff between attempts, returns
\* the context error if cancelled during a backoff, and otherwise fails
\* with "failed after 3 retries".
C36_BoundedRetries ==
    [][w.impl = "client.go" =>
        /\ w'.tries <= 3
        /\ (w.pc = "try" /\ w'.tries = w.tries + 1) =>
              /\ w'.lastObs \notin {"temp", "fatal"} =>
                    /\ w'.pc \in {"done", "sleep"}
                    /\ w'.pc = "done" => w'.result = "ok"
                    /\ w'.lastStatus = w'.retStatus \/ w'.pc = "sleep"
              /\ w'.lastObs = "fatal" =>
                    /\ w'.pc = "done" /\ w'.result = "getErr"
                    /\ w'.now - w.now <= MaxLatency
              /\ w'.lastObs = "temp" => w'.pc = "backoff"
        /\ (w.pc = "backoff" /\ w'.pc # "backoff") =>
              IF w.cancelled
              THEN w'.pc = "done" /\ w'.result = "ctxErr" /\ w'.now = w.now
              ELSE /\ w'.now - w.now > w.waited
                   /\ IF w.tries < 3
                      THEN w'.pc = "try"
                      ELSE w'.pc = "done" /\ w'.result = "retriesErr"
    ]_vars

\* Three temporary failures in one GetExport call, backoffs of 1 s, 2 s and
\* 3 s, then "failed after 3 retries".
C36_Witness ==
    /\ w.impl = "client.go"
    /\ w.pc = "done"
    /\ w.result = "retriesErr"
    /\ w.calls = 1
    /\ w.tries = 3
    /\ w.waited = 3
    /\ w.now >= 6

\* pollExport has returned with one of its three outcomes, each for its
\* cause: the export after a poll saw "finished", an error after a poll saw
\* "failed", "export timed out" once ExportTimeout has elapsed (or the
\* caller's context, which the timeout context ends with, was cancelled).
PollOutcome ==
    w.pc = "done" =>
        /\ w.result \in {"ok", "failedErr", "timedOut"}
        /\ w.result = "ok" => w.polls > 0 /\ w.lastRes = "finished"
        /\ w.result = "failedErr" => w.polls > 0 /\ w.lastRes = "failed"
        /\ w.result = "timedOut" => w.cancelled \/ w.now >= w.timeout

\* A poll that came back with an error or with a status other than
\* finished and failed sends pollExport back to its select.
PollGoesOn ==
    (w.pc = "poll" /\ w'.polls = w.polls + 1
        /\ w'.lastRes \notin {"finished", "failed"}) => w'.pc = "select"

DeliveredKeys(t) ==
    {JoinedKey(t.handed[i].rec) : i \in {j \in 1..Len(t.handed) : t.handed[j].ok}}

\* C39: after any sequence of ticks every key of the state store is the
\* IdentityKey of a payload row that was successfully handed to the
\* consumer: a tick adds no StateEntry for anything else.
C39_OnlyDeliveredRowsStored ==
    [][(DOMAIN states' \ DOMAIN states) \subseteq DeliveredKeys(tick')]_vars

====
